---- MODULE Spec2Model ----
(***************************************************************************)
(* State-machine model of skills-installer/bin/expcat-skills.js: the       *)
(* install flow of main (argument parsing, fetch with sparse-checkout      *)
(* fallback, stepwise directory navigation, target selection, symlink      *)
(* privilege probe with elevated relaunch, preview confirmation, copy into *)
(* the shared store, per-tool mapping, scratch cleanup) and the uninstall  *)
(* flow.                                                                   *)
(*                                                                         *)
(* proc : the state of the running process (flags, locals of main, the    *)
(*        program position pc)                                             *)
(* fs   : the filesystem the process acts on                               *)
(* hist : history (ghost) variables recording what the process did         *)
(***************************************************************************)
EXTENDS Integers, Sequences, FiniteSets, TLC

VARIABLES proc, fs, hist

vars == <<proc, fs, hist>>

----------------------------------------------------------------------------
(* Bounds of the model *)

\* how many of the entries of TOOLS the model's home directory holds
NumTools == 2

\* cap on the number of elevated relaunches a chain of invocations explores
MaxRelaunch == 2

\* how many of the entries of TOOLS the home directory holds in the runs
\* that map several targets one after the other
NumLinkTools == 3

\* how many invocations in a row call initLog on one log directory
MaxRuns == 2

\* the largest number of '/'-separated pieces of a location string handed
\* to parseGithubParts on its own
MaxPieces == 5

----------------------------------------------------------------------------
(* Constants of the program *)

TOOLS == <<"copilot", "claude", "codex", "opencode", "gemini">>

Tools == {TOOLS[i] : i \in 1..NumTools}

LinkTools == {TOOLS[i] : i \in 1..NumLinkTools}

\* the subsequence of TOOLS whose members are in S, in the order of TOOLS
RECURSIVE ToolsIn(_, _)
ToolsIn(S, i) ==
    IF i > Len(TOOLS) THEN <<>>
    ELSE (IF TOOLS[i] \in S THEN <<TOOLS[i]>> ELSE <<>>) \o ToolsIn(S, i + 1)

Range(s) == {s[i] : i \in 1..Len(s)}

----------------------------------------------------------------------------
(* Operator input read through rlPrompt: a line of characters, trimmed *)

RECURSIVE TrimLeft(_)
TrimLeft(s) == IF s # <<>> /\ Head(s) = " " THEN TrimLeft(Tail(s)) ELSE s

RECURSIVE TrimRight(_)
TrimRight(s) ==
    IF s # <<>> /\ s[Len(s)] = " " THEN TrimRight(SubSeq(s, 1, Len(s) - 1)) ELSE s

\* String.prototype.trim
Trim(s) == TrimRight(TrimLeft(s))

rlPrompt(line) == Trim(line)

\* String.prototype.toLowerCase on the characters the prompts compare
LowerChar(c) ==
    CASE c = "S" -> "s"
      [] c = "Q" -> "q"
      [] c = "Y" -> "y"
      [] c = "R" -> "r"
      [] c = "O" -> "o"
      [] OTHER -> c

toLowerCase(s) == [i \in 1..Len(s) |-> LowerChar(s[i])]

\* /^y$/i, /^r$/i, /^o$/i
MatchesLetterI(s, c) == Len(s) = 1 /\ LowerChar(s[1]) = c

DigitValue(c) ==
    CASE c = "0" -> 0 [] c = "1" -> 1 [] c = "2" -> 2 [] c = "3" -> 3
      [] c = "4" -> 4 [] c = "5" -> 5 [] c = "6" -> 6 [] c = "7" -> 7
      [] c = "8" -> 8 [] c = "9" -> 9 [] OTHER -> -1

\* Number(choice) for a non-empty line of decimal digits; -1 stands for a
\* value that is not an integer in [1, count]
RECURSIVE NumberOf(_)
NumberOf(s) ==
    IF s = <<>> THEN 0
    ELSE LET d == DigitValue(s[Len(s)])
             r == NumberOf(SubSeq(s, 1, Len(s) - 1))
         IN  IF d < 0 \/ r < 0 THEN -1 ELSE 10 * r + d

----------------------------------------------------------------------------
(* Command line *)

\* stop: "no", or the process.exit the loop ran into ("exit0", "exit1")
ArgState0 ==
    [dryRun |-> FALSE, cleanLogs |-> FALSE, cleanSkills |-> FALSE,
     uninstall |-> FALSE, elevated |-> FALSE, githubInput |-> "",
     stop |-> "no"]

\* parseArgs: the loop over args from position i
RECURSIVE parseArgs(_, _, _)
parseArgs(args, i, st) ==
    IF i > Len(args) THEN st
    ELSE LET a == args[i] IN
         IF a \in {"-d", "--dry-run"} THEN
             parseArgs(args, i + 1, [st EXCEPT !.dryRun = TRUE])
         ELSE IF a = "--clean-logs" THEN
             parseArgs(args, i + 1, [st EXCEPT !.cleanLogs = TRUE])
         ELSE IF a = "--clean-skills" THEN
             parseArgs(args, i + 1, [st EXCEPT !.cleanSkills = TRUE])
         ELSE IF a \in {"-ui", "--uninstall"} THEN
             parseArgs(args, i + 1, [st EXCEPT !.uninstall = TRUE])
         ELSE IF a = "--elevated" THEN
             parseArgs(args, i + 1, [st EXCEPT !.elevated = TRUE])
         ELSE IF a \in {"-v", "--version", "-h", "--help"} THEN
             [st EXCEPT !.stop = "exit0"]
         ELSE IF st.githubInput = "" THEN
             parseArgs(args, i + 1, [st EXCEPT !.githubInput = a])
         ELSE [st EXCEPT !.stop = "exit1"]

----------------------------------------------------------------------------
(* GitHub location *)

\* A location string is modelled as the sequence of its parts: "/" stands
\* for one slash, ".git" for these four characters, "github.com" for the host
\* name, the scheme parts for "https://github.com/" and "http://github.com/"
\* at the very start of the string; every other part is a run of characters
\* without '/', '.git' or the host name.
SchemeParts == {"https://github.com/", "http://github.com/"}

\* the parts of the location strings the command lines of the model hold
Chars(input) ==
    CASE input = "o/r" -> <<"o", "/", "r">>
      [] input = "https://github.com/o/r/tree/main/skills" ->
             <<"https://github.com/", "o", "/", "r", "/", "tree", "/", "main",
               "/", "skills">>
      [] input = "o/r/skills/foo/v1" ->
             <<"o", "/", "r", "/", "skills", "/", "foo", "/", "v1">>
      [] input = "o/r/nope" -> <<"o", "/", "r", "/", "nope">>
      [] input = "o" -> <<"o">>
      [] input = "/r" -> <<"/", "r">>
      [] input = "o/" -> <<"o", "/">>
      [] input = "" -> <<>>
      [] OTHER -> <<input>>

\* normalizeGithubInput: the three replace calls, in order
normalizeGithubInput(input) ==
    LET a == IF input # <<>> /\ Head(input) \in SchemeParts
             THEN Tail(input) ELSE input
        b == IF Len(a) >= 2 /\ a[1] = "github.com" /\ a[2] = "/"
             THEN SubSeq(a, 3, Len(a)) ELSE a
    IN  IF b # <<>> /\ b[Len(b)] = ".git" THEN SubSeq(b, 1, Len(b) - 1) ELSE b

\* String.prototype.split('/'): the pieces between the slashes, each the
\* sequence of its parts ("".split('/') is one empty piece)
RECURSIVE Split(_)
Split(c) ==
    IF "/" \notin Range(c) THEN <<c>>
    ELSE LET i == CHOOSE k \in 1..Len(c) :
                      c[k] = "/" /\ \A j \in 1..(k - 1) : c[j] # "/"
         IN  <<SubSeq(c, 1, i - 1)>> \o Split(SubSeq(c, i + 1, Len(c)))

\* Array.prototype.join('/')
RECURSIVE JoinSlash(_)
JoinSlash(pieces) ==
    IF pieces = <<>> THEN <<>>
    ELSE IF Len(pieces) = 1 THEN pieces[1]
    ELSE pieces[1] \o <<"/">> \o JoinSlash(Tail(pieces))

\* the string a sequence of parts spells
RECURSIVE Str(_)
Str(c) == IF c = <<>> THEN "" ELSE Head(c) \o Str(Tail(c))

\* path.join(tmpDir, subpath) relative to tmpDir: the non-empty pieces
PathOf(subpath) ==
    LET ne == SelectSeq(Split(subpath), LAMBDA x : x # <<>>)
    IN  [i \in 1..Len(ne) |-> Str(ne[i])]

Pieces(input) == Split(normalizeGithubInput(input))

\* Array.prototype.indexOf, 1-based (0: not found)
IndexOf(s, x) ==
    IF x \in Range(s) THEN CHOOSE i \in 1..Len(s) : s[i] = x /\ \A j \in 1..(i - 1) : s[j] # x
    ELSE 0

\* what git ls-remote --symref gave: the exit status and the branch the
\* pattern /ref: refs\/heads\/([^\s]+)/ captures from stdout ("" when the
\* output does not match)
LsRemoteResults ==
    { [status |-> 0, match |-> "dev"], [status |-> 0, match |-> ""],
      [status |-> 1, match |-> "dev"] }

\* getDefaultBranch that does not look at the exit status
getDefaultBranchAnyStatus(res) ==
    IF res.match # "" THEN res.match ELSE "main"

getDefaultBranch(res) ==
    IF res.status = 0 /\ res.match # "" THEN res.match ELSE "main"

\* parseGithubParts that asks for the default branch before it checks owner
\* and repo
parseGithubPartsQueryFirst(input, res) ==
    LET pieces == Pieces(input)
        owner == pieces[1]
        repo == IF Len(pieces) >= 2 THEN pieces[2] ELSE <<>>
    IN  [ok |-> owner # <<>> /\ repo # <<>>, owner |-> owner, repo |-> repo,
         ref |-> <<getDefaultBranch(res)>>,
         subpath |-> JoinSlash(SubSeq(pieces, 3, Len(pieces))), queried |-> TRUE]

\* parseGithubParts: the pieces are 1-based here, so pieces[0] is pieces[1];
\* owner, repo, ref and subpath are sequences of parts; ok = FALSE is the
\* logError + process.exit(1) of lines 308-311; res is what the ls-remote of
\* getDefaultBranch gives, queried tells whether getDefaultBranch was called
parseGithubParts(input, res) ==
    LET pieces == Pieces(input)
        owner == pieces[1]
        repo == IF Len(pieces) >= 2 THEN pieces[2] ELSE <<>>
        treeIdx == IndexOf(pieces, <<"tree">>)
        hasTree == treeIdx >= 1 /\ Len(pieces) > treeIdx
        ref0 == IF hasTree THEN pieces[treeIdx + 1] ELSE <<>>
        subpath == IF hasTree
                   THEN JoinSlash(SubSeq(pieces, treeIdx + 2, Len(pieces)))
                   ELSE JoinSlash(SubSeq(pieces, 3, Len(pieces)))
    IN  IF owner = <<>> \/ repo = <<>> THEN
            [ok |-> FALSE, owner |-> owner, repo |-> repo, ref |-> <<>>,
             subpath |-> <<>>, queried |-> FALSE]
        ELSE
            [ok |-> TRUE, owner |-> owner, repo |-> repo,
             ref |-> IF ref0 = <<>> THEN <<getDefaultBranch(res)>> ELSE ref0,
             subpath |-> subpath, queried |-> ref0 = <<>>]

----------------------------------------------------------------------------
(* The fetched repository: directories of the scratch tree, as paths
   relative to tmpDir *)

RepoDirs ==
    { <<>>, <<".git">>, <<"skills">>, <<"skills", "foo">>, <<"skills", "bar">>,
      <<"skills", "foo", "v1">> }

\* fs.existsSync(p) && fs.statSync(p).isDirectory() inside the scratch tree
IsRepoDir(f, p) == f.tmp = "cloned" /\ p \in RepoDirs

\* an order of the entry names of the model: Array.prototype.sort() order
\* for the directory names of the repository, readdir order elsewhere
NameRank(n) ==
    CASE n = ".git" -> 1 [] n = "bar" -> 2 [] n = "foo" -> 3
      [] n = "skills" -> 4 [] n = "v1" -> 5
      [] n = ".hidden" -> 6 [] n = "README.md" -> 7 [] n = "empty" -> 8
      [] n = "hiddenOnly" -> 9 [] n = "renamed" -> 10 [] n = "skillA" -> 11
      [] n = "skillB" -> 12 [] n = "SKILL.md" -> 13 [] OTHER -> 14

RECURSIVE SortNames(_)
SortNames(S) ==
    IF S = {} THEN <<>>
    ELSE LET m == CHOOSE x \in S : \A y \in S : NameRank(x) <= NameRank(y)
         IN  <<m>> \o SortNames(S \ {m})

\* the plain files of the scratch tree
RepoFiles ==
    { <<"README.md">>, <<"skills", "foo", "v1", "SKILL.md">>,
      <<"skills", "bar", "SKILL.md">> }

\* readdirSync(current, {withFileTypes}): the entries directly under current
Entries(current) ==
    {q \in RepoDirs \cup RepoFiles :
        Len(q) = Len(current) + 1 /\ SubSeq(q, 1, Len(current)) = current}

\* dirs that keeps the plain files of current
SubDirsWithFiles(current) ==
    SortNames({p[Len(p)] : p \in Entries(current)})

\* readdirSync(current, {withFileTypes}).filter(isDirectory).map(name).sort()
SubDirs(current) ==
    SortNames({p[Len(p)] : p \in {e \in Entries(current) : e \in RepoDirs}})

IsPrefix(a, b) == Len(a) <= Len(b) /\ SubSeq(b, 1, Len(a)) = a

\* path.dirname and path.join on scratch-relative paths
dirname(p) ==
    IF p = <<>> \/ p[Len(p)] = ".." THEN Append(p, "..") ELSE SubSeq(p, 1, Len(p) - 1)

join(p, name) == Append(p, name)

\* path.basename(selectedDir); the scratch root is named by mkdtemp
basename(p) == IF p = <<>> THEN "expcat-skills-XXXXXX" ELSE p[Len(p)]

----------------------------------------------------------------------------
(* Filesystem of the user's home *)

\* what lies at a tool's skills path: nothing, a plain directory, a plain
\* file, or a link whose target resolves to the shared store root, to some
\* other existing directory, or to nothing
Kinds == {"absent", "dir", "file", "linkStore", "linkOther", "linkBroken"}

\* fs.existsSync follows links
existsSync(f, tool) ==
    CASE f.tool[tool] = "absent" -> FALSE
      [] f.tool[tool] = "linkBroken" -> FALSE
      [] f.tool[tool] = "linkStore" -> f.storeRoot
      [] OTHER -> TRUE

IsSymbolicLink(f, tool) == f.tool[tool] \in {"linkStore", "linkOther", "linkBroken"}

\* isSkillsLinked(tool): the path exists, is a link, and its resolved target
\* is the shared store root
isSkillsLinked(f, tool) ==
    /\ existsSync(f, tool)
    /\ IsSymbolicLink(f, tool)
    /\ f.tool[tool] = "linkStore"

\* getAvailableTargets that lists every tool
getAvailableTargetsAll(f) == DOMAIN f.tool

\* getAvailableTargets
getAvailableTargets(f) == {t \in DOMAIN f.tool : ~isSkillsLinked(f, t)}

----------------------------------------------------------------------------
(* Process state *)

\* a process as node starts it: args is process.argv.slice(2), elevated is
\* process.env.EXPCAT_SKILLS_ELEVATED === '1'
NewProc(args, platform) ==
    [pc |-> "start", args |-> args, platform |-> platform,
     dryRun |-> FALSE, cleanLogs |-> FALSE, cleanSkills |-> FALSE,
     uninstall |-> FALSE, elevated |-> FALSE, githubInput |-> "",
     logFile |-> "", hook |-> FALSE,
     ref |-> "", subpath |-> <<>>, basePath |-> <<>>, current |-> <<>>,
     prev |-> <<>>, choice |-> <<>>,
     selectedDir |-> <<>>, skillName |-> "", targets |-> <<>>, tIdx |-> 1,
     skills |-> <<>>, selected |-> <<>>, dIdx |-> 1,
     exitCode |-> 0, why |-> "", spawned |-> <<>>, stderr |-> <<>>]

\* an exit handler that was never registered
exitHookNever(q, f) == f

\* the handler registered with process.on('exit'): remove the scratch directory
exitHook(q, f) ==
    IF q.hook /\ f.tmp # "none" THEN [f EXCEPT !.tmp = "removed"] ELSE f

\* the message of the logError call that precedes a process.exit, by the
\* place of the exit ("": the exit is not preceded by logError)
ErrorMessage(why) ==
    CASE why = "badArgs" -> "Unexpected argument"
      [] why = "noGit" -> "Missing required command: git"
      [] why = "badInput" -> "Invalid GitHub path"
      [] why = "cloneFailed" -> "Failed to clone repository"
      [] why = "pathNotFound" -> "Path not found"
      [] why = "notPermitted" -> "Unable to create symlink"
      [] why = "elevationFailed" -> "Elevation was cancelled or failed"
      [] why = "emptyName" -> "Name cannot be empty"
      [] why = "exception" -> "err.message"
      [] OTHER -> ""

\* logError that appends to the log file whether or not LOG_FILE is set
logErrorAlways(q, f, msg) ==
    [proc |-> [q EXCEPT !.stderr = Append(@, msg)],
     fs |-> [f EXCEPT !.logErrors = Append(@, msg)]]

\* logError(msg): console.error, and appendFileSync when LOG_FILE is set;
\* stderr holds the error lines of the console, logErrors those of the
\* session log file
logError(q, f, msg) ==
    [proc |-> [q EXCEPT !.stderr = Append(@, msg)],
     fs |-> IF q.logFile # "" THEN [f EXCEPT !.logErrors = Append(@, msg)] ELSE f]

\* process.exit(code), after the logError of its place if there is one:
\* the exit handlers run, then the process is gone
Exit(q, f, code, why) ==
    LET l == IF ErrorMessage(why) # "" THEN logError(q, f, ErrorMessage(why))
             ELSE [proc |-> q, fs |-> f]
    IN  [proc |-> [l.proc EXCEPT !.pc = "exited", !.exitCode = code, !.why = why],
         fs |-> exitHook(q, l.fs)]

\* main().catch: logError, process.exit(1)
Catch(q, f) == Exit(q, f, 1, "exception")

----------------------------------------------------------------------------
(* RepositoryFetcher *)

\* what `git --version` gives: its exit status and the (major, minor) the
\* pattern /git version (\d+)\.(\d+)/ finds in its output, <<>> when the
\* output does not match
GitProbe(status, match) == [status |-> status, match |-> match]

GitProbes ==
    { GitProbe(0, v) : v \in { <<1, 30>>, <<2, 24>>, <<2, 25>>, <<3, 0>> } }
        \cup { GitProbe(1, <<2, 30>>), GitProbe(0, <<>>) }

getGitVersion(probe) ==
    IF probe.status = 0 /\ probe.match # <<>> THEN probe.match ELSE <<0, 0>>

\* supportsSparseCheckout that asks for major >= 2 and minor >= 25
supportsSparseCheckoutBothFields(probe) ==
    LET version == getGitVersion(probe)
    IN  version[1] >= 2 /\ version[2] >= 25

supportsSparseCheckout(probe) ==
    LET version == getGitVersion(probe)
    IN  version[1] > 2 \/ (version[1] = 2 /\ version[2] >= 25)

\* the git steps of cloneRepoSparse, in order
SparseSteps == <<"init", "remote add", "sparse-checkout init", "sparse-checkout set", "pull">>

\* cloneRepoSparse: failAt is the index of the first step whose status is
\* non-zero, 0 when every step succeeds
cloneRepoSparse(failAt) == failAt = 0

Attempt(kind, ok) == [kind |-> kind, ok |-> ok]

\* cloneRepoFull: one git clone; a non-zero status is logError + process.exit(1)
cloneRepoFull(fullOk) == <<Attempt("full", fullOk)>>

\* cloneRepo without the fallback: a failed sparse checkout ends the fetch
cloneRepoNoFallback(subpath, version, failAt, fullOk) ==
    IF subpath # <<>> /\ supportsSparseCheckout(version) THEN
        [attempts |-> <<Attempt("sparse", cloneRepoSparse(failAt))>>,
         ok |-> cloneRepoSparse(failAt)]
    ELSE [attempts |-> cloneRepoFull(fullOk), ok |-> fullOk]

\* cloneRepo whose full clone returns to main whatever git's status was
cloneRepoFailureIgnored(subpath, version, failAt, fullOk) ==
    IF subpath # <<>> /\ supportsSparseCheckout(version) THEN
        IF cloneRepoSparse(failAt) THEN
            [attempts |-> <<Attempt("sparse", TRUE)>>, ok |-> TRUE]
        ELSE
            [attempts |-> <<Attempt("sparse", FALSE)>> \o cloneRepoFull(fullOk),
             ok |-> TRUE]
    ELSE [attempts |-> cloneRepoFull(fullOk), ok |-> TRUE]

\* cloneRepo: the fetch attempts made, in order, and whether the scratch
\* directory holds the repository afterwards (ok = FALSE: cloneRepoFull exited)
cloneRepo(subpath, version, failAt, fullOk) ==
    IF subpath # <<>> /\ supportsSparseCheckout(version) THEN
        IF cloneRepoSparse(failAt) THEN
            [attempts |-> <<Attempt("sparse", TRUE)>>, ok |-> TRUE]
        ELSE
            [attempts |-> <<Attempt("sparse", FALSE)>> \o cloneRepoFull(fullOk),
             ok |-> fullOk]
    ELSE [attempts |-> cloneRepoFull(fullOk), ok |-> fullOk]

----------------------------------------------------------------------------
(* TreeNavigator: one pass of the loop of selectDirectoryStepwise after the
   prompt was answered with choice *)

\* navChoice whose '..' does not compare current with basePath
navChoiceNoBaseCheck(current, basePath, dirs, choice) ==
    IF choice = <<".">> \/ choice = <<>> THEN
        [k |-> "return", current |-> current]
    ELSE IF choice = <<".", ".">> THEN
        [k |-> "continue", current |-> dirname(current)]
    ELSE IF toLowerCase(choice) = <<"s">> THEN
        [k |-> "continue",
         current |-> IF Len(dirs) = 1 THEN join(current, dirs[1]) ELSE current]
    ELSE IF toLowerCase(choice) = <<"q">> THEN
        [k |-> "quit", current |-> current]
    ELSE LET idx == NumberOf(choice) IN
        [k |-> "continue",
         current |-> IF idx >= 1 /\ idx <= Len(dirs)
                     THEN join(current, dirs[idx]) ELSE current]

\* selectDirectoryStepwise whose 's' enters the first subdirectory whatever
\* the number of subdirectories
navChoiceSkipFirst(current, basePath, dirs, choice) ==
    IF choice = <<".">> \/ choice = <<>> THEN
        [k |-> "return", current |-> current]
    ELSE IF choice = <<".", ".">> THEN
        [k |-> "continue",
         current |-> IF current = basePath THEN current ELSE dirname(current)]
    ELSE IF toLowerCase(choice) = <<"s">> THEN
        [k |-> "continue", current |-> join(current, dirs[1])]
    ELSE IF toLowerCase(choice) = <<"q">> THEN
        [k |-> "quit", current |-> current]
    ELSE LET idx == NumberOf(choice) IN
        [k |-> "continue",
         current |-> IF idx >= 1 /\ idx <= Len(dirs)
                     THEN join(current, dirs[idx]) ELSE current]

\* selectDirectoryStepwise that takes an invalid choice as "select current"
navChoiceInvalidSelects(current, basePath, dirs, choice) ==
    IF choice = <<".">> \/ choice = <<>> THEN
        [k |-> "return", current |-> current]
    ELSE IF choice = <<".", ".">> THEN
        [k |-> "continue",
         current |-> IF current = basePath THEN current ELSE dirname(current)]
    ELSE IF toLowerCase(choice) = <<"s">> THEN
        [k |-> "continue",
         current |-> IF Len(dirs) = 1 THEN join(current, dirs[1]) ELSE current]
    ELSE IF toLowerCase(choice) = <<"q">> THEN
        [k |-> "quit", current |-> current]
    ELSE LET idx == NumberOf(choice) IN
        IF idx >= 1 /\ idx <= Len(dirs)
        THEN [k |-> "continue", current |-> join(current, dirs[idx])]
        ELSE [k |-> "return", current |-> current]

navChoice(current, basePath, dirs, choice) ==
    IF choice = <<".">> \/ choice = <<>> THEN
        [k |-> "return", current |-> current]
    ELSE IF choice = <<".", ".">> THEN
        [k |-> "continue",
         current |-> IF current = basePath THEN current ELSE dirname(current)]
    ELSE IF toLowerCase(choice) = <<"s">> THEN
        [k |-> "continue",
         current |-> IF Len(dirs) = 1 THEN join(current, dirs[1]) ELSE current]
    ELSE IF toLowerCase(choice) = <<"q">> THEN
        [k |-> "quit", current |-> current]
    ELSE LET idx == NumberOf(choice) IN
        [k |-> "continue",
         current |-> IF idx >= 1 /\ idx <= Len(dirs)
                     THEN join(current, dirs[idx]) ELSE current]

\* lines the operator may type at the navigation prompt
NavLines ==
    { <<".">>, <<>>, <<".", ".">>, <<"s">>, <<"S">>, <<"q">>, <<"Q">>,
      <<"1">>, <<"2">>, <<"3">>, <<" ", "2">>, <<"x">> }

----------------------------------------------------------------------------
(* TargetMapper *)

\* relaunchAsAdmin that forgets to push '--elevated'
relaunchArgvNoFlag(args) == <<"expcat-skills.js">> \o args

\* relaunchAsAdmin: the argument list handed to Start-Process
relaunchArgv(args) ==
    LET argv == <<"expcat-skills.js">> \o args
    IN  IF "--elevated" \in Range(argv) THEN argv ELSE Append(argv, "--elevated")

\* what canCreateSymlink does: returns true, returns false (EPERM/EACCES),
\* or rethrows another error
ProbeOutcomes == {"ok", "denied", "throws"}

\* ensureSymlinkPrivilegeOrRelaunch that goes on with the install when the
\* relaunch request fails
ensureSymlinkPrivilegeOrRelaunchGoesOn(q, f, outcome, spawnOk) ==
    IF q.platform # "win32" THEN [proc |-> [q EXCEPT !.pc = "preview"], fs |-> f]
    ELSE IF outcome = "ok" THEN [proc |-> [q EXCEPT !.pc = "preview"], fs |-> f]
    ELSE IF outcome = "throws" THEN Catch(q, f)
    ELSE IF q.elevated THEN Exit(q, f, 1, "notPermitted")
    ELSE IF ~spawnOk THEN [proc |-> [q EXCEPT !.pc = "preview"], fs |-> f]
    ELSE Exit([q EXCEPT !.spawned = relaunchArgv(q.args)], f, 0, "relaunched")

\* ensureSymlinkPrivilegeOrRelaunch
ensureSymlinkPrivilegeOrRelaunch(q, f, outcome, spawnOk) ==
    IF q.platform # "win32" THEN [proc |-> [q EXCEPT !.pc = "preview"], fs |-> f]
    ELSE IF outcome = "ok" THEN [proc |-> [q EXCEPT !.pc = "preview"], fs |-> f]
    ELSE IF outcome = "throws" THEN Catch(q, f)
    ELSE IF q.elevated THEN Exit(q, f, 1, "notPermitted")
    ELSE IF ~spawnOk THEN Exit(q, f, 1, "elevationFailed")
    ELSE Exit([q EXCEPT !.spawned = relaunchArgv(q.args)], f, 0, "relaunched")

\* fs.rmSync(toolSkillsPath, {recursive, force})
rmToolPath(f, tool) ==
    [f EXCEPT !.tool[tool] = "absent",
              !.content[tool] = IF f.tool[tool] = "dir" THEN {} ELSE @]

\* linkSkillsDir without the early return for a mapped target
linkSkillsDirNoLinkedCheck(f, tool, dryRun, overwrite, symOk) ==
    LET ex == existsSync(f, tool) IN
    IF ex /\ ~overwrite THEN
        [fs |-> f, asked |-> TRUE, out |-> "skipped"]
    ELSE LET f1 == IF ex /\ ~dryRun THEN rmToolPath(f, tool) ELSE f IN
        IF dryRun THEN
            [fs |-> f1, asked |-> ex, out |-> "dry"]
        ELSE IF f1.tool[tool] # "absent" \/ ~symOk THEN
            [fs |-> f1, asked |-> ex, out |-> "throws"]
        ELSE
            [fs |-> [f1 EXCEPT !.tool[tool] = "linkStore"], asked |-> ex,
             out |-> "mapped"]

\* linkSkillsDir that removes the existing path and returns without linking
linkSkillsDirRemovesOnly(f, tool, dryRun, overwrite, symOk) ==
    IF isSkillsLinked(f, tool) THEN
        [fs |-> f, asked |-> FALSE, out |-> "already"]
    ELSE LET ex == existsSync(f, tool) IN
        IF ex /\ ~overwrite THEN
            [fs |-> f, asked |-> TRUE, out |-> "skipped"]
        ELSE LET f1 == IF ex /\ ~dryRun THEN rmToolPath(f, tool) ELSE f IN
            IF dryRun THEN [fs |-> f1, asked |-> ex, out |-> "dry"]
            ELSE [fs |-> f1, asked |-> ex, out |-> "mapped"]

\* linkSkillsDir(agentsRoot, tool): overwrite is the answer to the replace
\* confirmation (asked only when the path exists and is not mapped), symOk
\* whether fs.symlinkSync succeeds on a free path
linkSkillsDir(f, tool, dryRun, overwrite, symOk) ==
    IF isSkillsLinked(f, tool) THEN
        [fs |-> f, asked |-> FALSE, out |-> "already"]
    ELSE LET ex == existsSync(f, tool) IN
        IF ex /\ ~overwrite THEN
            [fs |-> f, asked |-> TRUE, out |-> "skipped"]
        ELSE LET f1 == IF ex /\ ~dryRun THEN rmToolPath(f, tool) ELSE f IN
            IF dryRun THEN
                [fs |-> f1, asked |-> ex, out |-> "dry"]
            ELSE IF f1.tool[tool] # "absent" \/ ~symOk THEN
                [fs |-> f1, asked |-> ex, out |-> "throws"]
            ELSE
                [fs |-> [f1 EXCEPT !.tool[tool] = "linkStore"], asked |-> ex,
                 out |-> "mapped"]

----------------------------------------------------------------------------
(* Preview confirmation and ConflictResolver *)

\* a confirmation that takes the empty answer for yes
confirmPreviewDefaultYes(answer) == answer = <<>> \/ MatchesLetterI(answer, "y")

\* confirmPreview: /^y$/i.test(answer)
confirmPreview(answer) == MatchesLetterI(answer, "y")

ConfirmLines == { <<"y">>, <<"Y">>, <<" ", "y">>, <<>>, <<"n">>, <<"y", "e", "s">> }

ConflictLines == { <<>>, <<"r">>, <<"R">>, <<"o">>, <<"O">>, <<"x">> }

\* names the operator may give at 'New name: ' (already trimmed)
NewNames == {"", "renamed", "skills", "../escaped"}

\* handleConflict that takes the empty answer for overwrite
conflictActionDefaultOverwrite(action) ==
    IF MatchesLetterI(action, "r") THEN "rename"
    ELSE IF action = <<>> \/ MatchesLetterI(action, "o") THEN "__overwrite__"
    ELSE "invalid"

\* what handleConflict does with the answer to 'Overwrite (o) / Rename (r) ?'
conflictAction(action) ==
    IF action = <<>> \/ MatchesLetterI(action, "r") THEN "rename"
    ELSE IF MatchesLetterI(action, "o") THEN "__overwrite__"
    ELSE "invalid"

\* path.join(destRoot, name) lies under destRoot
UnderRoot(name) == name # "../escaped"

\* fs.mkdirSync(destRoot, {recursive: true})
mkdirStoreRoot(f) == [f EXCEPT !.storeRoot = TRUE]

\* fs.rmSync(dest, {recursive, force}) on an entry of the shared store
rmStoreEntry(f, name) == [f EXCEPT !.store = @ \ {name}]

\* fs.cpSync(src, dest, {recursive: true}): a destination that exists keeps
\* its entries and receives those of src
cpSync(f, name) ==
    IF UnderRoot(name)
    THEN [f EXCEPT !.store = @ \cup {name}, !.changed = @ \cup {name},
                   !.merged = IF name \in f.store THEN @ \cup {name} ELSE @]
    ELSE [f EXCEPT !.outside = @ \cup {name}]

\* lines 675-680 of copySkill
copyOrLog(f, name, dryRun) == IF dryRun THEN f ELSE cpSync(f, name)

----------------------------------------------------------------------------
(* Initial states *)

\* the part of the filesystem under the user's home that the installer
\* writes: the tool skills paths and the shared store
Home(f) ==
    [tool |-> f.tool, storeRoot |-> f.storeRoot, store |-> f.store,
     changed |-> f.changed, outside |-> f.outside, content |-> f.content,
     other |-> f.other]

Locations ==
    {"o/r", "https://github.com/o/r/tree/main/skills", "o/r/skills/foo/v1",
     "o/r/nope", "o", "/r", "o/"}

InstallArgs ==
    {<<l>> : l \in Locations} \cup {<<"--dry-run", l>> : l \in Locations}
        \cup {<<"o/r", "--elevated">>, <<"-d", "o/r", "extra">>, <<"-h">>, <<>>}

Platforms == {"win32", "linux"}

\* content: the entries of each tool skills path that is a plain directory;
\* other: the entries of the directory a "linkOther" link leads to;
\* tmp: the scratch directory ("none" before mkdtemp, "empty", "partial"
\* after a failed fetch, "cloned", "removed"); logs: the entries
\* of the log directory; changed: store entries written by this run;
\* merged: those of them that were written onto an existing entry;
\* outside: copies written outside the shared store root; gitVersion: what
\* the installed git reports
InitFs(tool, storeRoot, store, version) ==
    [tool |-> tool, storeRoot |-> storeRoot, store |-> store, changed |-> {},
     outside |-> {}, tmp |-> "none", logs |-> {"install-old.log", "notes.txt"},
     gitVersion |-> version, content |-> [t \in DOMAIN tool |-> {}], other |-> {},
     logErrors |-> <<>>, merged |-> {}]

StoreInits == { <<FALSE, {}>>, <<TRUE, {}>>, <<TRUE, {"skills", "v1"}>> }

InitHist(f) ==
    [home0 |-> Home(f), logs0 |-> f.logs, fetchLog |-> <<>>, headQueries |-> 0,
     probes |-> 0, lines |-> <<>>, twin |-> <<>>, offered |-> <<>>,
     trace |-> <<>>, copies |-> 0, requested |-> <<>>,
     conflict |-> [action |-> <<>>, newName |-> ""],
     relaunches |-> 0,
     answer |-> <<>>, confirmed |-> FALSE, asked |-> {}, visited |-> {},
     declined |-> {}, linkFailed |-> {}, deleted |-> {}, delFailed |-> {}]

InitWith(args, platform, version, tool, st) ==
    /\ proc = NewProc(args, platform)
    /\ fs = InitFs(tool, st[1], st[2], version)
    /\ hist = InitHist(fs)

\* every command line, platform and git version of the model, on a home
\* whose tool skills paths are all free or all plain directories
InitInstall ==
    \E args \in InstallArgs, platform \in Platforms, version \in GitProbes,
       k \in {"absent", "dir"} :
        InitWith(args, platform, version, [t \in Tools |-> k], <<TRUE, {"skills", "v1"}>>)

\* every state of the home, for an install of o/r/skills/foo/v1 with a git
\* that has no sparse-checkout
HomeRuns ==
    { <<<<"o/r/skills/foo/v1">>, "linux">>, <<<<"o/r/skills/foo/v1">>, "win32">>,
      <<<<"--dry-run", "o/r/skills/foo/v1">>, "linux">> }

InitHome ==
    \E run \in HomeRuns, tool \in [Tools -> Kinds], st \in StoreInits :
        InitWith(run[1], run[2], GitProbe(0, <<2, 24>>), tool, st)

----------------------------------------------------------------------------
(* The install flow of main *)

Goto(q, f, pc) == [proc |-> [q EXCEPT !.pc = pc], fs |-> f]

\* the stages main has entered, in order (a stage that loops is listed once)
Stage(h, name) ==
    [h EXCEPT !.trace = IF @ # <<>> /\ @[Len(@)] = name THEN @ ELSE Append(@, name)]

\* lines 721-741: parseArgs and the dispatch on the mode flags
Start ==
    /\ proc.pc = "start"
    /\ LET st == parseArgs(proc.args, 1, [ArgState0 EXCEPT !.elevated = proc.elevated])
           q == [proc EXCEPT !.dryRun = st.dryRun, !.cleanLogs = st.cleanLogs,
                             !.cleanSkills = st.cleanSkills,
                             !.uninstall = st.uninstall,
                             !.elevated = st.elevated,
                             !.githubInput = st.githubInput]
           r == IF st.stop = "exit0" THEN Exit(q, fs, 0, "info")
                ELSE IF st.stop = "exit1" THEN Exit(q, fs, 1, "badArgs")
                ELSE IF st.cleanLogs THEN Goto(q, fs, "purgeLogs")
                ELSE IF st.cleanSkills THEN Goto(q, fs, "cleanSkills")
                ELSE IF st.uninstall THEN Goto(q, fs, "uninstall")
                ELSE IF st.githubInput = "" THEN Exit(q, fs, 1, "usage")
                ELSE Goto(q, fs, "requireGit")
       IN  proc' = r.proc /\ fs' = r.fs
    /\ UNCHANGED hist

\* main that looks for git only once the scratch directory is there
RequireGitAfterMkdtemp ==
    /\ proc.pc = "requireGit"
    /\ \E gitOk \in BOOLEAN :
         LET r == IF gitOk THEN Goto(proc, fs, "initLog")
                  ELSE Exit([proc EXCEPT !.hook = TRUE],
                            [fs EXCEPT !.tmp = "empty"], 1, "noGit")
         IN  proc' = r.proc /\ fs' = r.fs
    /\ UNCHANGED hist

\* line 743: requireGit
RequireGit ==
    /\ proc.pc = "requireGit"
    /\ \E gitOk \in BOOLEAN :
         LET r == IF gitOk THEN Goto(proc, fs, "initLog")
                  ELSE Exit(proc, fs, 1, "noGit")
         IN  proc' = r.proc /\ fs' = r.fs
    /\ UNCHANGED hist

\* the entry names of the log directory of the model, and what
\* f.startsWith('install-') and f.endsWith('.log') give for them
LogDirNames ==
    {"install-T1.log", "install-T2.log", "install-old.log", "install-notes.txt",
     "install-T1.log.bak", "debug.log", "notes.txt"}

StartsWithInstall(n) ==
    n \in {"install-T1.log", "install-T2.log", "install-old.log",
           "install-notes.txt", "install-T1.log.bak"}

EndsWithLog(n) ==
    n \in {"install-T1.log", "install-T2.log", "install-old.log", "debug.log"}

\* the time stamps (to the second) new Date() may give
Stamps == {"T1", "T2"}

\* initLog that only creates the new log file
initLogKeepsOld(f, stamp) ==
    [fs |-> [f EXCEPT !.logs = @ \cup {"install-" \o stamp \o ".log"},
                      !.logErrors = <<>>],
     logFile |-> "install-" \o stamp \o ".log"]

\* initLog: create this run's log file (writeFileSync truncates one of the
\* same name), then remove every other entry that starts with 'install-'
\* and ends with '.log'; logFile is the base name of LOG_FILE
initLog(f, stamp) ==
    LET logFile == "install-" \o stamp \o ".log"
        written == f.logs \cup {logFile}
    IN  [fs |-> [f EXCEPT !.logs =
                    {n \in written : ~( /\ StartsWithInstall(n)
                                         /\ EndsWithLog(n)
                                         /\ n # logFile )},
                          !.logErrors = <<>>],
         logFile |-> logFile]

\* line 744
InitLog ==
    /\ proc.pc = "initLog"
    /\ LET r == initLog(fs, "T1")
       IN  /\ proc' = [proc EXCEPT !.pc = "parse", !.logFile = r.logFile]
           /\ fs' = r.fs
    /\ UNCHANGED hist

\* lines 746-748: parseGithubParts (with getDefaultBranch when no ref is given)
ParseLocation ==
    /\ proc.pc = "parse"
    /\ \E res \in LsRemoteResults :
         LET g == parseGithubParts(Chars(proc.githubInput), res)
             r == IF g.ok
                  THEN Goto([proc EXCEPT !.ref = Str(g.ref), !.subpath = g.subpath],
                            fs, "mkdtemp")
                  ELSE Exit(proc, fs, 1, "badInput")
         IN  /\ proc' = r.proc
             /\ fs' = r.fs
             /\ hist' = Stage(IF g.queried
                              THEN Stage([hist EXCEPT !.headQueries = @ + 1], "query")
                              ELSE hist, "parse")

\* lines 750-755: create the scratch directory and register its removal
MkTmp ==
    /\ proc.pc = "mkdtemp"
    /\ proc' = [proc EXCEPT !.pc = "clone", !.hook = TRUE]
    /\ fs' = [fs EXCEPT !.tmp = "empty"]
    /\ UNCHANGED hist

\* lines 757-761: cloneRepo into the scratch directory, then basePath
CloneRepo ==
    /\ proc.pc = "clone"
    /\ \E failAt \in 0..Len(SparseSteps), fullOk \in BOOLEAN :
         LET c == cloneRepo(proc.subpath, fs.gitVersion, failAt, fullOk)
             r == IF c.ok
                  THEN Goto([proc EXCEPT !.basePath = PathOf(proc.subpath),
                                         !.current = PathOf(proc.subpath),
                                         !.prev = PathOf(proc.subpath), !.ref = ""],
                            [fs EXCEPT !.tmp = "cloned"], "nav")
                  ELSE Exit(proc, [fs EXCEPT !.tmp = "partial"], 1, "cloneFailed")
         IN  /\ proc' = r.proc
             /\ fs' = r.fs
             /\ hist' = Stage([hist EXCEPT !.fetchLog = @ \o c.attempts], "fetch")

\* one pass of the loop of selectDirectoryStepwise (lines 424-485)
Nav ==
    /\ proc.pc = "nav"
    /\ IF ~IsRepoDir(fs, proc.current) THEN
           LET r == Exit(proc, fs, 1, "pathNotFound")
           IN  proc' = r.proc /\ fs' = r.fs
       ELSE IF Len(SubDirs(proc.current)) = 0 THEN
           /\ proc' = [proc EXCEPT !.pc = "selectTargets",
                                   !.selectedDir = proc.current]
           /\ fs' = fs
       ELSE \E line \in NavLines :
           LET choice == rlPrompt(line)
               n == navChoice(proc.current, proc.basePath,
                              SubDirs(proc.current), choice)
               q == [proc EXCEPT !.choice = choice, !.prev = proc.current,
                                 !.current = n.current]
               r == IF n.k = "quit" THEN Exit(q, fs, 1, "navQuit")
                    ELSE IF n.k = "return"
                    THEN Goto([q EXCEPT !.selectedDir = n.current], fs,
                              "selectTargets")
                    ELSE Goto(q, fs, "nav")
           IN  proc' = r.proc /\ fs' = r.fs
    /\ hist' = Stage(hist, "navigate")

\* lines 764-770: check the selection, skillName, selectTargets
SelectTargets ==
    /\ proc.pc = "selectTargets"
    /\ IF ~IsRepoDir(fs, proc.selectedDir) THEN
           LET r == Exit(proc, fs, 1, "pathNotFound")
           IN  proc' = r.proc /\ fs' = r.fs
       ELSE \E S \in SUBSET getAvailableTargets(fs) :
           /\ proc' = [proc EXCEPT !.pc = "probe",
                                   !.skillName = basename(proc.selectedDir),
                                   !.targets = ToolsIn(S, 1),
                                   !.basePath = <<>>, !.current = <<>>,
                                   !.prev = <<>>, !.choice = <<>>,
                                   !.subpath = <<>>, !.selectedDir = <<>>]
           /\ fs' = fs
    /\ hist' = IF IsRepoDir(fs, proc.selectedDir)
               THEN [hist EXCEPT !.offered = Append(@, getAvailableTargets(fs))]
               ELSE hist

\* main that calls ensureSymlinkPrivilegeOrRelaunch whatever was selected
ProbeAlways ==
    /\ proc.pc = "probe"
    /\ \E outcome \in ProbeOutcomes, spawnOk \in BOOLEAN :
         LET r == ensureSymlinkPrivilegeOrRelaunch(proc, fs, outcome, spawnOk)
         IN  /\ proc' = r.proc
             /\ fs' = r.fs
             /\ hist' = IF proc.platform = "win32"
                        THEN Stage([hist EXCEPT !.probes = @ + 1], "probe")
                        ELSE hist

\* lines 772-774; requested is the argument list relaunchAsAdmin hands to
\* Start-Process, when it is called
Probe ==
    /\ proc.pc = "probe"
    /\ IF Len(proc.targets) > 0 /\ ~proc.dryRun THEN
           \E outcome \in ProbeOutcomes, spawnOk \in BOOLEAN :
               LET r == ensureSymlinkPrivilegeOrRelaunch(proc, fs, outcome, spawnOk)
               IN  /\ proc' = r.proc
                   /\ fs' = r.fs
                   /\ hist' = IF proc.platform = "win32"
                              THEN Stage([hist EXCEPT
                                       !.probes = @ + 1,
                                       !.requested =
                                           IF outcome = "denied" /\ ~proc.elevated
                                           THEN relaunchArgv(proc.args) ELSE @],
                                       "probe")
                              ELSE hist
       ELSE /\ proc' = [proc EXCEPT !.pc = "preview"]
            /\ UNCHANGED <<fs, hist>>

\* lines 776-795: the preview and its confirmation
Preview ==
    /\ proc.pc = "preview"
    /\ \E line \in ConfirmLines :
         LET answer == rlPrompt(line)
             ok == confirmPreview(answer)
             r == IF ok THEN Goto(proc, fs, "copy")
                  ELSE Exit(proc, fs, 1, "declined")
         IN  /\ proc' = r.proc
             /\ fs' = r.fs
             /\ hist' = Stage([hist EXCEPT !.answer = answer, !.confirmed = ok],
                              "preview")

\* main without the loop over targets after copySkill
AfterCopyNoLinks(q, f) ==
    Goto([q EXCEPT !.skillName = "", !.tIdx = Len(q.targets) + 1], f, "link")

\* after copySkill returns: the loop over targets starts
AfterCopy(q, f) ==
    Goto([q EXCEPT !.skillName = "", !.tIdx = 1], f, "link")

\* line 797, copySkill up to the first prompt of handleConflict
CopySkill ==
    /\ proc.pc = "copy"
    /\ LET f1 == mkdirStoreRoot(fs)
           r == IF proc.skillName \in f1.store
                THEN Goto(proc, f1, "conflict")
                ELSE AfterCopy(proc, copyOrLog(f1, proc.skillName, proc.dryRun))
       IN  /\ proc' = r.proc
           /\ fs' = r.fs
           /\ hist' = Stage([hist EXCEPT !.copies = IF r.proc.pc = "link"
                                                    THEN @ + 1 ELSE @], "copy")

\* handleConflict's prompt(s) answered, and the rest of copySkill
Conflict ==
    /\ proc.pc = "conflict"
    /\ \E line \in ConflictLines, newName \in NewNames :
         LET act == conflictAction(rlPrompt(line))
             dest == proc.skillName
             r == IF act = "rename" THEN
                      IF newName = "" THEN Exit(proc, fs, 1, "emptyName")
                      ELSE AfterCopy(proc, copyOrLog(fs, newName, proc.dryRun))
                  ELSE IF act = "__overwrite__" THEN
                      AfterCopy(proc,
                          copyOrLog(IF proc.dryRun THEN fs ELSE rmStoreEntry(fs, dest),
                                    dest, proc.dryRun))
                  ELSE Goto(proc, fs, "conflict")
         IN  /\ proc' = r.proc
             /\ fs' = r.fs
             /\ hist' = [hist EXCEPT
                    !.copies = IF r.proc.pc = "link" THEN @ + 1 ELSE @,
                    !.conflict = [action |-> rlPrompt(line),
                                  newName |-> IF act = "rename" THEN newName
                                              ELSE ""]]

\* lines 799-801: linkSkillsDir for the next target
LinkSkillsDir ==
    /\ proc.pc = "link"
    /\ proc.tIdx <= Len(proc.targets)
    /\ \E overwrite \in BOOLEAN, symOk \in BOOLEAN :
         LET t == proc.targets[proc.tIdx]
             l == linkSkillsDir(fs, t, proc.dryRun, overwrite, symOk)
             r == IF l.out = "throws" THEN Catch(proc, l.fs)
                  ELSE Goto([proc EXCEPT !.tIdx = @ + 1], l.fs, "link")
         IN  /\ proc' = r.proc
             /\ fs' = r.fs
             /\ hist' = [Stage(hist, "map") EXCEPT
                    !.visited = @ \cup {t},
                    !.asked = IF l.asked THEN @ \cup {t} ELSE @,
                    !.declined = IF l.out = "skipped" THEN @ \cup {t} ELSE @,
                    !.linkFailed = IF l.out = "throws" THEN @ \cup {t} ELSE @]

\* lines 803-810: remove the scratch directory, process.exit(0)
Finish ==
    /\ proc.pc = "link"
    /\ proc.tIdx > Len(proc.targets)
    /\ LET r == Exit(proc, [fs EXCEPT !.tmp = "removed"], 0, "done")
       IN  proc' = r.proc /\ fs' = r.fs
    /\ hist' = Stage(hist, "cleanup")

\* the process Start-Process launched: node runs main again with the
\* relaunch argument list, as administrator
StartElevated ==
    /\ proc.pc = "exited"
    /\ proc.spawned # <<>>
    /\ hist.relaunches < MaxRelaunch
    /\ proc' = NewProc(Tail(proc.spawned), proc.platform)
    /\ fs' = [fs EXCEPT !.tmp = "none"]
    /\ hist' = [InitHist(fs) EXCEPT !.relaunches = hist.relaunches + 1]

NextInstall ==
    \/ Start \/ RequireGit \/ InitLog \/ ParseLocation \/ MkTmp \/ CloneRepo
    \/ Nav \/ SelectTargets \/ Probe \/ Preview \/ CopySkill \/ Conflict
    \/ LinkSkillsDir \/ Finish \/ StartElevated

Spec == InitInstall /\ [][NextInstall]_vars

SpecHome == InitHome /\ [][NextInstall]_vars

\* an install of o/r/skills/foo/v1 into a home with NumLinkTools tools whose
\* skills paths are free or plain directories
InitLink ==
    \E platform \in Platforms, tool \in [LinkTools -> {"absent", "dir"}] :
        InitWith(<<"o/r/skills/foo/v1">>, platform, GitProbe(0, <<2, 24>>), tool,
                 <<TRUE, {"skills", "v1"}>>)

SpecLink == InitLink /\ [][NextInstall]_vars

----------------------------------------------------------------------------
(* parseGithubParts on its own: every location string of up to MaxPieces
   pieces, with and without a scheme, under every outcome of ls-remote *)

\* what a piece of a location string may be: empty, a name, the tree
\* marker, the host name, a name ending in .git once or twice
PieceWords ==
    { <<>>, <<"o">>, <<"tree">>, <<"github.com">>, <<"r", ".git">>,
      <<"r", ".git", ".git">> }

LocationInputs ==
    { sch \o JoinSlash(ps) :
        sch \in {<<>>} \cup {<<x>> : x \in SchemeParts},
        ps \in UNION {[1..n -> PieceWords] : n \in 1..MaxPieces} } \ {<<>>}

InitParse ==
    \E input \in LocationInputs, res \in LsRemoteResults :
        /\ proc = [pc |-> "parse", input |-> input, res |-> res,
                   parsed |-> parseGithubParts(<<"o", "/", "o">>, res),
                   again |-> parseGithubParts(<<"o", "/", "o">>, res),
                   exitCode |-> 0]
        /\ fs = InitFs([t \in Tools |-> "absent"], FALSE, {}, GitProbe(0, <<2, 25>>))
        /\ hist = InitHist(fs)

\* lines 303-329 applied to the input; process.exit(1) on a missing owner
\* or repo
ParseInput ==
    /\ proc.pc = "parse"
    /\ LET g == parseGithubParts(proc.input, proc.res)
       IN  proc' = [proc EXCEPT !.parsed = g,
                                !.pc = IF g.ok THEN "parsed" ELSE "exited",
                                !.exitCode = IF g.ok THEN 0 ELSE 1]
    /\ UNCHANGED <<fs, hist>>

\* the location string `${owner}/${repo}/tree/${ref}/${subpath}` of a result
NormalForm(g) ==
    g.owner \o <<"/">> \o g.repo \o <<"/", "tree", "/">> \o g.ref \o <<"/">>
        \o g.subpath

\* parseGithubParts applied to the normal form of its own result, the
\* remote unchanged
ParseAgain ==
    /\ proc.pc = "parsed"
    /\ proc' = [proc EXCEPT
                    !.again = parseGithubParts(NormalForm(proc.parsed), proc.res),
                    !.pc = "reparsed"]
    /\ UNCHANGED <<fs, hist>>

NextParse == ParseInput \/ ParseAgain

SpecParse == InitParse /\ [][NextParse]_vars

----------------------------------------------------------------------------
(* initLog on its own: a log directory holding any of LogDirNames, and up to
   MaxRuns invocations one after the other *)

InitLogDir ==
    \E logs \in SUBSET LogDirNames :
        /\ proc = [pc |-> "idle", logFile |-> "", runs |-> 0]
        /\ fs = [InitFs([t \in Tools |-> "absent"], FALSE, {}, GitProbe(0, <<2, 25>>))
                    EXCEPT !.logs = logs]
        /\ hist = InitHist(fs)

\* one invocation reaching line 744
RunInitLog ==
    /\ proc.runs < MaxRuns
    /\ \E stamp \in Stamps :
         LET r == initLog(fs, stamp)
         IN  /\ proc' = [pc |-> "logged", logFile |-> r.logFile,
                         runs |-> proc.runs + 1]
             /\ fs' = r.fs
    /\ UNCHANGED hist

NextLog == RunInitLog

SpecLog == InitLogDir /\ [][NextLog]_vars

----------------------------------------------------------------------------
(* UninstallScanner *)

\* entries a skills directory may hold; what an entry is follows from its
\* name: "skillA", "skillB", "skills", "v1", "renamed" are directories with
\* content, "empty" is an empty directory, "hiddenOnly" a directory holding
\* only .DS_Store, ".hidden" a directory with content whose name starts with
\* '.', "README.md" a plain file
EntryIsDirectory(n) == n # "README.md"

\* String.prototype.startsWith('.') on the entry names of the model
StartsWithDot(n) == n \in {".hidden", ".DS_Store", ".git"}

EntryIsHidden(n) == StartsWithDot(n)

\* fs.readdirSync(skillPath): the entries of a subdirectory
EntriesOf(n) ==
    CASE n = "empty" -> {}
      [] n = "hiddenOnly" -> {".DS_Store"}
      [] n = "skillB" -> {".DS_Store", "SKILL.md"}
      [] n = "README.md" -> {}
      [] OTHER -> {"SKILL.md"}

\* isDirectoryEmpty that counts hidden entries too
isDirectoryEmptyStrict(n) == EntriesOf(n) = {}

\* isDirectoryEmpty(skillPath): no entry whose name does not start with '.'
isDirectoryEmpty(n) == {e \in EntriesOf(n) : ~StartsWithDot(e)} = {}

\* the entries of the directory a tool's skills path leads to
\* (fs.readdirSync(root)); only asked when the path exists
readdirTool(f, tool) ==
    CASE f.tool[tool] = "dir" -> f.content[tool]
      [] f.tool[tool] = "linkStore" -> f.store
      [] f.tool[tool] = "linkOther" -> f.other
      [] OTHER -> {}

\* fs.readdirSync on a plain file throws ENOTDIR
ReaddirThrows(f, tool) == f.tool[tool] = "file"

RECURSIVE SkillsOf(_, _)
SkillsOf(tool, names) ==
    IF names = <<>> THEN <<>>
    ELSE <<[tool |-> tool, name |-> Head(names),
            path |-> <<"~", "." \o tool, "skills", Head(names)>>]>>
         \o SkillsOf(tool, Tail(names))

\* scanInstalledSkills: the loop over TOOLS from position i
RECURSIVE scanInstalledSkills(_, _)
scanInstalledSkills(f, i) ==
    IF i > NumTools THEN <<>>
    ELSE LET tool == TOOLS[i]
             found == IF existsSync(f, tool)
                      THEN SortNames({n \in readdirTool(f, tool) :
                               /\ EntryIsDirectory(n)
                               /\ ~EntryIsHidden(n)
                               /\ ~isDirectoryEmpty(n)})
                      ELSE <<>>
         IN  SkillsOf(tool, found) \o scanInstalledSkills(f, i + 1)

ScanThrows(f) == \E t \in DOMAIN f.tool : existsSync(f, t) /\ ReaddirThrows(f, t)

\* fs.rmSync(s.path, {recursive, force}) on a candidate
rmSkill(f, s) ==
    CASE f.tool[s.tool] = "dir" -> [f EXCEPT !.content[s.tool] = @ \ {s.name}]
      [] f.tool[s.tool] = "linkStore" -> [f EXCEPT !.store = @ \ {s.name}]
      [] f.tool[s.tool] = "linkOther" -> [f EXCEPT !.other = @ \ {s.name}]
      [] OTHER -> f

\* the members of the sequence s that are in S, in the order of s
RECURSIVE Filter(_, _)
Filter(s, S) ==
    IF s = <<>> THEN <<>>
    ELSE (IF Head(s) \in S THEN <<Head(s)>> ELSE <<>>) \o Filter(Tail(s), S)

\* runUninstall, lines 202-216: scan, up to the checkbox prompt
UnScan ==
    /\ proc.pc = "uninstall"
    /\ LET skills == scanInstalledSkills(fs, 1)
           r == IF ScanThrows(fs) THEN Catch(proc, fs)
                ELSE IF Len(skills) = 0 THEN Exit(proc, fs, 0, "nothingInstalled")
                ELSE Goto([proc EXCEPT !.skills = skills], fs, "unSelect")
       IN  proc' = r.proc /\ fs' = r.fs
    /\ UNCHANGED hist

\* lines 210-232: the selection, up to the confirm prompt
UnSelect ==
    /\ proc.pc = "unSelect"
    /\ \E S \in SUBSET Range(proc.skills) :
         LET selected == Filter(proc.skills, S)
             r == IF Len(selected) = 0 THEN Exit(proc, fs, 0, "nothingSelected")
                  ELSE Goto([proc EXCEPT !.selected = selected], fs, "unConfirm")
         IN  proc' = r.proc /\ fs' = r.fs
    /\ UNCHANGED hist

\* runUninstall that goes on to delete whatever the confirmation says
UnConfirmIgnored ==
    /\ proc.pc = "unConfirm"
    /\ \E confirmed \in BOOLEAN :
         LET r == Goto([proc EXCEPT !.dIdx = 1], fs, "unDelete")
         IN  /\ proc' = r.proc
             /\ fs' = r.fs
             /\ hist' = [hist EXCEPT !.confirmed = confirmed]

\* lines 229-237: the confirmation
UnConfirm ==
    /\ proc.pc = "unConfirm"
    /\ \E confirmed \in BOOLEAN :
         LET r == IF confirmed THEN Goto([proc EXCEPT !.dIdx = 1], fs, "unDelete")
                  ELSE Exit(proc, fs, 0, "cancelled")
         IN  /\ proc' = r.proc
             /\ fs' = r.fs
             /\ hist' = [hist EXCEPT !.confirmed = confirmed]

\* the body of the loop of lines 239-246 for one candidate: rmOk is whether
\* fs.rmSync returns; when it throws the error leaves runUninstall and main
deleteSkill(q, f, s, rmOk) ==
    IF q.dryRun THEN Goto([q EXCEPT !.dIdx = @ + 1], f, "unDelete")
    ELSE IF rmOk THEN Goto([q EXCEPT !.dIdx = @ + 1], rmSkill(f, s), "unDelete")
    ELSE Catch(q, f)

UnDelete ==
    /\ proc.pc = "unDelete"
    /\ proc.dIdx <= Len(proc.selected)
    /\ \E rmOk \in BOOLEAN :
         LET s == proc.selected[proc.dIdx]
             r == deleteSkill(proc, fs, s, rmOk)
         IN  /\ proc' = r.proc
             /\ fs' = r.fs
             /\ hist' = [hist EXCEPT
                    !.deleted = IF ~proc.dryRun /\ rmOk THEN @ \cup {s} ELSE @,
                    !.delFailed = IF ~proc.dryRun /\ ~rmOk THEN @ \cup {s} ELSE @]

\* line 248 and main's process.exit(0) of line 735
UnDone ==
    /\ proc.pc = "unDelete"
    /\ proc.dIdx > Len(proc.selected)
    /\ LET r == Exit(proc, fs, 0, "uninstalled")
       IN  proc' = r.proc /\ fs' = r.fs
    /\ UNCHANGED hist

UninstallArgs == { <<"-ui">>, <<"--uninstall", "--dry-run">> }

ContentInits ==
    { {}, {"skillA", "skillB"},
      {"skillA", "empty", "hiddenOnly", ".hidden", "README.md"} }

InitUninstall ==
    \E args \in UninstallArgs, tool \in [Tools -> Kinds],
       content \in [Tools -> ContentInits], store \in ContentInits :
        /\ \A t \in Tools : tool[t] # "dir" => content[t] = {}
        /\ proc = NewProc(args, "linux")
        /\ fs = [InitFs(tool, TRUE, store, GitProbe(0, <<2, 25>>)) EXCEPT
                     !.content = content, !.other = {"skillB"}]
        /\ hist = InitHist(fs)

NextUninstall == Start \/ UnScan \/ UnSelect \/ UnConfirm \/ UnDelete \/ UnDone

SpecUninstall == InitUninstall /\ [][NextUninstall]_vars

----------------------------------------------------------------------------
(* Maintenance modes: --clean-logs and --clean-skills *)

\* purgeLogs: remove every entry of the log directory that starts with
\* 'install-' and ends with '.log' (the log directory of the model exists)
purgeLogs(f) ==
    [f EXCEPT !.logs = {n \in @ : ~(StartsWithInstall(n) /\ EndsWithLog(n))}]

\* lines 723-726
PurgeLogs ==
    /\ proc.pc = "purgeLogs"
    /\ LET r == Exit(proc, purgeLogs(fs), 0, "logsCleaned")
       IN  proc' = r.proc /\ fs' = r.fs
    /\ UNCHANGED hist

\* a line written through logInfo / logSuccess / logWarn
Line(level, text, tool) == [level |-> level, text |-> text, tool |-> tool]

\* isDirectoryEmpty(skillsPath) for a tool skills path that exists
isToolDirEmpty(f, tool) == {e \in readdirTool(f, tool) : ~StartsWithDot(e)} = {}

\* the loop of cleanEmptyToolSkillsDirs from position i of TOOLS: st holds
\* the filesystem, the lines logged so far and the removed paths
RECURSIVE cleanLoop(_, _, _)
cleanLoop(st, dryRun, i) ==
    IF i > Len(TOOLS) THEN st
    ELSE LET tool == TOOLS[i] IN
         IF tool \notin DOMAIN st.fs.tool \/ ~existsSync(st.fs, tool) THEN
             cleanLoop(st, dryRun, i + 1)
         ELSE IF ReaddirThrows(st.fs, tool) THEN
             cleanLoop([st EXCEPT !.log = Append(@, Line("warn", "Failed to check", tool))],
                       dryRun, i + 1)
         ELSE IF ~isToolDirEmpty(st.fs, tool) THEN
             cleanLoop(st, dryRun, i + 1)
         ELSE IF dryRun THEN
             cleanLoop([st EXCEPT !.log = Append(@, Line("info", "Would remove empty dir", tool))],
                       dryRun, i + 1)
         ELSE
             cleanLoop([st EXCEPT !.fs = rmToolPath(@, tool),
                                  !.removed = Append(@, tool)],
                       dryRun, i + 1)

\* cleanEmptyToolSkillsDirs: the filesystem afterwards and the lines logged
cleanEmptyToolSkillsDirs(f, dryRun) ==
    LET st == cleanLoop([fs |-> f, log |-> <<>>, removed |-> <<>>], dryRun, 1)
        tail == IF dryRun THEN <<>>
                ELSE IF st.removed = <<>>
                THEN <<Line("info", "No empty tool skills directories found.", "")>>
                ELSE [k \in 1..Len(st.removed) |->
                         Line("success", "Removed empty dir", st.removed[k])]
    IN  [fs |-> st.fs, log |-> st.log \o tail]

\* lines 728-731; hist.twin is what the same call logs in the other mode
\* (dry-run on for off, off for on) from the same filesystem
CleanSkills ==
    /\ proc.pc = "cleanSkills"
    /\ LET c == cleanEmptyToolSkillsDirs(fs, proc.dryRun)
           r == Exit(proc, c.fs, 0, "skillsCleaned")
       IN  /\ proc' = r.proc
           /\ fs' = r.fs
           /\ hist' = [hist EXCEPT
                  !.lines = c.log,
                  !.twin = cleanEmptyToolSkillsDirs(fs, ~proc.dryRun).log]

MaintArgs ==
    { <<"--clean-logs">>, <<"--dry-run", "--clean-logs">>, <<"--clean-skills">>,
      <<"--clean-skills", "-d">>, <<"--clean-logs", "--clean-skills">> }

\* what a tool skills directory holds before --clean-skills
CleanContents == { {}, {".DS_Store"}, {".hidden"}, {"skillA", ".DS_Store"} }

InitMaint ==
    \E args \in MaintArgs, tool \in [Tools -> Kinds],
       content \in [Tools -> CleanContents], st \in StoreInits,
       logs \in {{}, {"install-old.log", "notes.txt"}} :
        /\ \A t \in Tools : tool[t] # "dir" => content[t] = {}
        /\ proc = NewProc(args, "linux")
        /\ fs = [InitFs(tool, st[1], st[2], GitProbe(0, <<2, 25>>)) EXCEPT
                     !.content = content, !.logs = logs]
        /\ hist = InitHist(fs)

NextMaint == Start \/ PurgeLogs \/ CleanSkills

SpecMaint == InitMaint /\ [][NextMaint]_vars

----------------------------------------------------------------------------------------------------------------------------------------------------
(* The legacy multi-target installer (part_001): main from selectTargets on,
   each tool directory receiving its own copy of the selected skill.  A
   target list is the sequence of its parts, "," being the comma. *)

MaxTargetParts == 3

LegacyKnown == { <<"claude">>, <<"copilot">>, <<"codex">>, <<"opencode">> }

\* String.prototype.split(','): the ids between the commas
RECURSIVE SplitComma(_)
SplitComma(c) ==
    IF "," \notin Range(c) THEN <<c>>
    ELSE LET i == CHOOSE k \in 1..Len(c) :
                      c[k] = "," /\ \A j \in 1..(k - 1) : c[j] # ","
         IN  <<SubSeq(c, 1, i - 1)>> \o SplitComma(SubSeq(c, i + 1, Len(c)))

\* Array.prototype.join(',') of the ticked choices
RECURSIVE JoinComma(_)
JoinComma(ids) ==
    IF ids = <<>> THEN <<>>
    ELSE IF Len(ids) = 1 THEN ids[1]
    ELSE ids[1] \o <<",">> \o JoinComma(Tail(ids))

\* getTargetRoot(tool): the tool of the root, <<>> for an unknown id
\* (logError and process.exit(1) unless silent)
getTargetRoot(id) == IF id \in LegacyKnown THEN id ELSE <<>>

\* the values of -t the model draws from
RawLists ==
    UNION { [1..n -> {"claude", "copilot", "bogus", ","}] : n \in 0..MaxTargetParts }

\* what the checkbox of selectTargets can return
Ticked == { <<>>, <<<<"claude">>>>, <<<<"copilot">>, <<"claude">>>>,
            <<<<"copilot">>, <<"claude">>, <<"codex">>, <<"opencode">>>> }

LegacyExit(q, code, why) ==
    [q EXCEPT !.pc = "exited", !.exitCode = code, !.why = why]

InitLegacy ==
    \E raw \in RawLists, dryRun \in BOOLEAN, present \in SUBSET {<<"claude">>} :
        /\ proc = [pc |-> "selectTargets", targetsRaw |-> raw, dryRun |-> dryRun,
                   skillName |-> "v1", tList |-> <<>>, tIdx |-> 1,
                   exitCode |-> 0, why |-> ""]
        /\ fs = [installed |-> {<<t, "v1">> : t \in present}]
        /\ hist = [installed0 |-> {<<t, "v1">> : t \in present},
                   selected |-> FALSE, asked |-> FALSE, copies |-> 0]

\* selectTargets and targets.split(',')
LegacySelectTargets ==
    /\ proc.pc = "selectTargets"
    /\ \E ticked \in Ticked :
         LET sel == IF proc.targetsRaw # <<>> THEN proc.targetsRaw
                    ELSE JoinComma(ticked)
         IN  proc' = IF proc.targetsRaw = <<>> /\ ticked = <<>>
                     THEN LegacyExit(proc, 1, "noTargets")
                     ELSE [proc EXCEPT !.pc = "preview", !.tList = SplitComma(sel)]
    /\ hist' = [hist EXCEPT !.selected = proc'.pc = "preview"]
    /\ UNCHANGED fs

\* a main that builds the preview from the ids alone
LegacyPreviewUnchecked ==
    /\ proc.pc = "preview"
    /\ \E line \in ConfirmLines :
         /\ proc' = IF confirmPreview(rlPrompt(line))
                    THEN [proc EXCEPT !.pc = "copy"]
                    ELSE LegacyExit(proc, 1, "declined")
         /\ hist' = [hist EXCEPT !.asked = TRUE]
    /\ UNCHANGED fs

\* the preview loop (getTargetRoot for every id) and confirmPreview
LegacyPreview ==
    /\ proc.pc = "preview"
    /\ IF \E i \in DOMAIN proc.tList : getTargetRoot(proc.tList[i]) = <<>> THEN
           /\ proc' = LegacyExit(proc, 1, "unknownTarget")
           /\ UNCHANGED hist
       ELSE \E line \in ConfirmLines :
           /\ proc' = IF confirmPreview(rlPrompt(line))
                      THEN [proc EXCEPT !.pc = "copy"]
                      ELSE LegacyExit(proc, 1, "declined")
           /\ hist' = [hist EXCEPT !.asked = TRUE]
    /\ UNCHANGED fs

\* one pass of the copy loop: getTargetRoot, copySkill with handleConflict
LegacyCopy ==
    /\ proc.pc = "copy"
    /\ proc.tIdx <= Len(proc.tList)
    /\ LET root == getTargetRoot(proc.tList[proc.tIdx])
           dest == <<root, proc.skillName>>
           next == [proc EXCEPT !.tIdx = @ + 1]
       IN  IF root = <<>> THEN
               /\ proc' = LegacyExit(proc, 1, "unknownTarget")
               /\ UNCHANGED <<fs, hist>>
           ELSE IF dest \notin fs.installed THEN
               /\ proc' = next
               /\ fs' = IF proc.dryRun THEN fs
                        ELSE [fs EXCEPT !.installed = @ \cup {dest}]
               /\ hist' = [hist EXCEPT !.copies = @ + 1]
           ELSE \E line \in ConflictLines, newName \in {"", "renamed"} :
               LET act == conflictAction(rlPrompt(line)) IN
               IF act = "invalid" THEN UNCHANGED <<proc, fs, hist>>
               ELSE IF act = "rename" /\ newName = "" THEN
                   /\ proc' = LegacyExit(proc, 1, "emptyName")
                   /\ UNCHANGED <<fs, hist>>
               ELSE
                   /\ proc' = next
                   /\ fs' = IF proc.dryRun THEN fs
                            ELSE [fs EXCEPT !.installed = @ \cup
                                     {IF act = "rename" THEN <<root, newName>>
                                      ELSE dest}]
                   /\ hist' = [hist EXCEPT !.copies = @ + 1]

\* main returns: the process ends with code 0
LegacyDone ==
    /\ proc.pc = "copy"
    /\ proc.tIdx > Len(proc.tList)
    /\ proc' = LegacyExit(proc, 0, "done")
    /\ UNCHANGED <<fs, hist>>

NextLegacy == LegacySelectTargets \/ LegacyPreview \/ LegacyCopy \/ LegacyDone

SpecLegacy == InitLegacy /\ [][NextLegacy]_vars

----
(* Properties *)

\* C1: in cloneRepo a failed sparse (narrow) attempt is followed by exactly
\* one full-clone attempt in the same invocation, and no fetch attempt of
\* either kind follows a full-clone attempt.
C1_NarrowFailureOneFallback ==
    LET L == hist.fetchLog IN
    \A i \in 1..Len(L) :
        /\ (L[i].kind = "sparse" /\ ~L[i].ok) =>
               (Len(L) = i + 1 /\ L[i + 1].kind = "full")
        /\ L[i].kind = "full" => i = Len(L)

C1_Witness ==
    /\ hist.fetchLog = <<Attempt("sparse", FALSE), Attempt("full", TRUE)>>
    /\ proc.pc = "exited"
    /\ proc.why = "done"

\* the ways main ends once the scratch directory exists
ExitsAfterScratch ==
    {"done", "cloneFailed", "navQuit", "pathNotFound", "declined", "emptyName",
     "relaunched", "elevationFailed", "notPermitted", "exception"}

C3_DryRunNoMutation == proc.dryRun => Home(fs) = hist.home0

\* C4 as stated: the store and the tool paths are unchanged until the
\* preview was answered with 'y', and any other answer ends the run.
C4_OnlyLowercaseY ==
    /\ Home(fs) # hist.home0 => hist.answer = <<"y">>
    /\ proc.pc \in {"copy", "conflict", "link"} => hist.answer = <<"y">>

\* C4: the shared store and the tool skills paths are unchanged until the
\* preview confirmation was answered with 'y' or 'Y' (the trimmed answer
\* matches /^y$/i); any other answer, the empty one included, ends the run
\* with exit code 1 and both left as they were.
C4_MutationOnlyAfterYes ==
    /\ Home(fs) # hist.home0 => toLowerCase(hist.answer) = <<"y">>
    /\ proc.pc \in {"copy", "conflict", "link"} => toLowerCase(hist.answer) = <<"y">>
    /\ proc.why = "declined" =>
           /\ proc.pc = "exited"
           /\ proc.exitCode = 1
           /\ toLowerCase(hist.answer) # <<"y">>
           /\ Home(fs) = hist.home0

C4_Witness ==
    /\ Home(fs) # hist.home0
    /\ hist.answer = <<"Y">>
    /\ proc.why = "done"

\* C5: linkSkillsDir called for a target whose skills path is a link to the
\* (existing) shared store root changes nothing on the filesystem and asks
\* no question.
C5_MappedIsNoop ==
    [][ ( /\ proc.pc = "link"
          /\ proc.tIdx <= Len(proc.targets)
          /\ fs.tool[proc.targets[proc.tIdx]] = "linkStore"
          /\ fs.storeRoot )
        => ( /\ fs' = fs
             /\ hist'.asked = hist.asked
             /\ hist'.visited = hist.visited \cup {proc.targets[proc.tIdx]}
             /\ proc'.pc = "link"
             /\ proc'.tIdx = proc.tIdx + 1 ) ]_vars

C5_Witness ==
    \E t \in hist.visited :
        /\ hist.home0.tool[t] = "linkStore"
        /\ fs.tool[t] = "linkStore"
        /\ t \notin hist.asked
        /\ ~proc.dryRun
        /\ proc.why = "done"

\* C6: a target whose skills path is a plain directory and whose replacement
\* the operator declined keeps the directory and its content and gets no
\* link, and every other selected target is still processed by linkSkillsDir.
C6_DeclineSkipsThatTargetOnly ==
    \A t \in hist.declined :
        hist.home0.tool[t] = "dir" =>
            /\ fs.tool[t] = "dir"
            /\ fs.content[t] = hist.home0.content[t]
            /\ proc.pc = "exited" => Range(proc.targets) \subseteq hist.visited

\* C7: when link creation fails for one of several selected targets, every
\* remaining selected target is still processed by linkSkillsDir.
C7_LinkFailureIsolated ==
    (proc.pc = "exited" /\ hist.linkFailed # {}) =>
        hist.visited = Range(proc.targets)

\* C8: in runUninstall a candidate whose deletion fails does not block the
\* others: every other selected candidate is still deleted.
C8_DeleteFailureIsolated ==
    (proc.pc = "exited" /\ hist.delFailed # {}) =>
        \A s \in Range(proc.selected) \ hist.delFailed : s \in hist.deleted

\* C9: elevation cannot loop: a chain of invocations holds at most one
\* relaunch, only a process without the elevation flag relaunches, every
\* relaunch argument list carries --elevated, and an elevated process whose
\* probe is denied exits non-zero.
C9_NoElevationLoop ==
    /\ hist.relaunches <= 1
    /\ proc.spawned # <<>> => proc.why = "relaunched"
    /\ proc.why = "relaunched" =>
           (~proc.elevated /\ "--elevated" \in Range(proc.spawned))
    /\ proc.why = "notPermitted" =>
           (proc.elevated /\ proc.exitCode # 0 /\ proc.spawned = <<>>)

C9_Witness ==
    /\ hist.relaunches = 1
    /\ proc.why = "notPermitted"

\* p is basePath or a descendant of it
InTree(basePath, p) == IsPrefix(basePath, p) /\ ".." \notin Range(p)

\* C10: in selectDirectoryStepwise current is always basePath or below it,
\* '..' entered at basePath leaves current unchanged, and the selection
\* returned lies in the tree rooted at basePath.
C10_NavigationStaysInBase ==
    /\ (proc.pc = "nav" \/ proc.why \in {"navQuit", "pathNotFound"}) =>
           InTree(proc.basePath, proc.current)
    /\ proc.pc = "selectTargets" => InTree(proc.basePath, proc.selectedDir)
    /\ (proc.pc = "nav" /\ proc.choice = <<".", ".">> /\ proc.prev = proc.basePath) =>
           proc.current = proc.basePath

C10_Witness ==
    /\ proc.pc = "nav"
    /\ proc.basePath = <<"skills">>
    /\ proc.choice = <<".", ".">>
    /\ proc.prev = proc.basePath
    /\ proc.current = proc.basePath

\* C11: at the navigation prompt 's' changes current exactly when the
\* directory shown has one subdirectory, and then current becomes that
\* subdirectory; with two or more, current stays and the prompt comes again.
\* (proc.prev is the directory the last prompt showed, proc.choice the
\* answer to it.)
C11_SkipOnlyWhenSingle ==
    proc.choice = <<"s">> =>
        LET dirs == SubDirs(proc.prev) IN
        /\ proc.current # proc.prev <=> Len(dirs) = 1
        /\ Len(dirs) = 1 => proc.current = join(proc.prev, dirs[1])
        /\ Len(dirs) >= 2 => (proc.current = proc.prev /\ proc.pc = "nav")

C11_Witness ==
    /\ proc.choice = <<"s">>
    /\ proc.prev = <<"skills", "foo">>
    /\ proc.current = <<"skills", "foo", "v1">>
    /\ proc.pc = "nav"

\* the trimmed line is none of the choices the prompt lists, compared as
\* written: '.', empty, '..', 's', 'q', or a number in [1, count]
OtherChoice(choice, count) ==
    /\ choice \notin {<<".">>, <<>>, <<".", ".">>, <<"s">>, <<"q">>}
    /\ NumberOf(choice) \notin 1..count

\* C12 as stated: any other input leaves current unchanged, does not end
\* the navigation and leads to a new prompt.
C12_OtherInputReprompts ==
    OtherChoice(proc.choice, Len(SubDirs(proc.prev))) =>
        (proc.current = proc.prev /\ proc.pc = "nav")

\* C12 with 's' and 'q' read in either case, as the code compares them:
\* any other input leaves current unchanged and leads to a new prompt.
C12_OtherInputRepromptsAnyCase ==
    OtherChoice(toLowerCase(proc.choice), Len(SubDirs(proc.prev))) =>
        (proc.current = proc.prev /\ proc.pc = "nav")

C12_Witness ==
    /\ proc.choice = <<"3">>
    /\ proc.prev = <<"skills">>
    /\ proc.current = <<"skills">>
    /\ proc.pc = "nav"

\* what the claim C14 describes: owner and repo are the first two pieces,
\* the tree marker is looked for among the pieces after them only
TreeAfterOwnerRepo(input, res) ==
    LET pieces == Pieces(input)
        rest == SubSeq(pieces, 3, Len(pieces))
        t == IndexOf(rest, <<"tree">>)
        hasTree == t >= 1 /\ Len(rest) > t
        ref0 == IF hasTree THEN rest[t + 1] ELSE <<>>
    IN  [owner |-> pieces[1], repo |-> pieces[2],
         ref |-> IF ref0 = <<>> THEN <<getDefaultBranch(res)>> ELSE ref0,
         subpath |-> IF hasTree THEN JoinSlash(SubSeq(rest, t + 2, Len(rest)))
                     ELSE JoinSlash(rest)]

\* C14: parseGithubParts looks for the 'tree' marker only among the pieces
\* after owner and repo: also when owner or repo is itself 'tree', owner and
\* repo are the first two pieces and ref and subpath come from the pieces
\* that follow them; with the marker among those, ref is the piece after it
\* and subpath the rest joined with '/'.
C14_TreeOnlyAfterOwnerRepo ==
    (proc.pc = "parsed" /\ proc.parsed.ok) =>
        LET e == TreeAfterOwnerRepo(proc.input, proc.res) IN
        /\ proc.parsed.owner = e.owner
        /\ proc.parsed.repo = e.repo
        /\ proc.parsed.ref = e.ref
        /\ proc.parsed.subpath = e.subpath

\* no 'tree' piece of the normalized input is followed by a non-empty piece
NoTreeRef(input) ==
    LET ps == Pieces(input)
    IN  ~\E i \in 1..(Len(ps) - 1) : ps[i] = <<"tree">> /\ ps[i + 1] # <<>>

\* C15: with non-empty owner and repo the ref returned is never empty; when
\* no tree piece gives one it is the branch of the remote's symbolic HEAD if
\* the query succeeded and its output matched, 'main' otherwise; scheme,
\* host and a trailing '.git' are stripped, so
\* 'https://github.com/o/r.git' with a failing query gives o, r, main, ''.
C15_RefNeverEmpty ==
    (proc.pc \in {"parsed", "reparsed"} /\ proc.parsed.ok) =>
        /\ Str(proc.parsed.ref) # ""
        /\ NoTreeRef(proc.input) =>
               proc.parsed.ref =
                   IF proc.res.status = 0 /\ proc.res.match # ""
                   THEN <<proc.res.match>> ELSE <<"main">>
        /\ Range(proc.parsed.owner) \cap SchemeParts = {}
        /\ ( /\ proc.input = <<"https://github.com/", "o", "/", "r", ".git">>
             /\ proc.res.status # 0 )
           => ( /\ proc.parsed.owner = <<"o">>
                /\ proc.parsed.repo = <<"r">>
                /\ proc.parsed.ref = <<"main">>
                /\ proc.parsed.subpath = <<>> )

C15_Witness ==
    /\ proc.pc = "parsed"
    /\ proc.input = <<"https://github.com/", "o", "/", "r", ".git">>
    /\ proc.res = [status |-> 1, match |-> "dev"]
    /\ proc.parsed.ok
    /\ proc.parsed.repo = <<"r">>
    /\ proc.parsed.ref = <<"main">>

\* C16: parsing the normal form owner/repo/tree/ref/subpath of a result,
\* with the remote unchanged, gives the same owner, repo, ref and subpath.
C16_ParseIdempotent ==
    proc.pc = "reparsed" =>
        /\ proc.again.ok
        /\ proc.again.owner = proc.parsed.owner
        /\ proc.again.repo = proc.parsed.repo
        /\ proc.again.ref = proc.parsed.ref
        /\ proc.again.subpath = proc.parsed.subpath

\* the location of the command line lacks an owner or a repo
BadLocation ==
    /\ proc.githubInput # ""
    /\ LET ps == Pieces(Chars(proc.githubInput))
       IN  ps[1] = <<>> \/ Len(ps) < 2 \/ ps[2] = <<>>

\* C17: a location whose owner or repo is missing or empty ends the process
\* with a non-zero code at parseGithubParts: the default branch is never
\* queried, the scratch directory never created, no fetch attempted.
C17_BadLocationFailsFast ==
    /\ BadLocation =>
           /\ proc.pc \in {"start", "requireGit", "initLog", "parse", "exited"}
           /\ proc.pc = "exited" => proc.why \in {"badInput", "noGit"}
           /\ hist.headQueries = 0
           /\ fs.tmp = "none" /\ ~proc.hook
           /\ hist.fetchLog = <<>>
    /\ proc.why = "badInput" => (BadLocation /\ proc.exitCode # 0)

C17_Witness ==
    /\ proc.pc = "exited"
    /\ proc.why = "badInput"
    /\ proc.githubInput = "/r"
    /\ proc.exitCode = 1
    /\ fs.tmp = "none"

\* C13: a cancellation by the operator (quit during navigation, a negative
\* or empty answer to the install preview, a negative or default answer to
\* the uninstall confirmation) ends the process with a non-zero exit code.
C13_CancelExitsNonZero ==
    (proc.pc = "exited" /\ proc.why \in {"navQuit", "declined", "cancelled"}) =>
        proc.exitCode # 0

\* the candidates C18 describes: one for each direct subdirectory, of an
\* existing tool skills directory, whose name does not start with '.' and
\* which holds an entry whose name does not start with '.'
CandidatesOf(f) ==
    { c \in { [tool |-> t, name |-> n, path |-> <<"~", "." \o t, "skills", n>>] :
                t \in {x \in DOMAIN f.tool : existsSync(f, x)},
                n \in {"skillA", "skillB", "skills", "v1", "renamed", "empty",
                       "hiddenOnly", ".hidden", "README.md"} } :
        /\ c.name \in readdirTool(f, c.tool)
        /\ c.name # "README.md"
        /\ c.name # ".hidden"
        /\ \E e \in EntriesOf(c.name) : e \notin {".DS_Store", ".git", ".hidden"} }

\* C18: when scanInstalledSkills returns, it returns exactly one candidate
\* for each such subdirectory and nothing else: no empty subdirectory, none
\* holding only hidden entries, no hidden subdirectory, no plain file.
C18_ScanListsNonEmptySkills ==
    /\ proc.pc = "unSelect" =>
           /\ Range(proc.skills) = CandidatesOf(fs)
           /\ Len(proc.skills) = Cardinality(CandidatesOf(fs))
    /\ proc.why = "nothingInstalled" => CandidatesOf(fs) = {}

C18_Witness ==
    /\ proc.pc = "unSelect"
    /\ fs.tool["copilot"] = "dir"
    /\ fs.content["copilot"] =
           {"skillA", "empty", "hiddenOnly", ".hidden", "README.md"}
    /\ fs.tool["claude"] = "linkStore"
    /\ fs.store = {"skillA", "skillB"}
    /\ Len(proc.skills) = 3

\* C19: runUninstall deletes nothing before the confirmation was answered
\* affirmatively: after an empty selection, and after a declined
\* confirmation, the process has ended with the home as it was.
C19_NoDeletionBeforeConfirm ==
    /\ Home(fs) # hist.home0 => hist.confirmed
    /\ hist.deleted # {} => hist.confirmed
    /\ proc.why \in {"nothingSelected", "cancelled"} =>
           (proc.pc = "exited" /\ Home(fs) = hist.home0 /\ hist.deleted = {})

C19_Witness ==
    /\ proc.pc = "exited"
    /\ proc.why = "cancelled"
    /\ ~proc.dryRun
    /\ Len(proc.selected) = 2
    /\ ~hist.confirmed
    /\ Home(fs) = hist.home0

\* the entries of the log directory that match install-*.log
InstallLogs(f) ==
    f.logs \cap {"install-T1.log", "install-T2.log", "install-old.log"}

\* C20: after initLog returned, the log directory holds exactly one file
\* matching install-*.log, the log file of the invocation that called it,
\* whatever it held before and after any number of invocations.
C20_OneLogRetained ==
    proc.pc = "logged" =>
        /\ InstallLogs(fs) = {proc.logFile}
        /\ Cardinality(InstallLogs(fs)) = 1

C20_Witness ==
    /\ proc.pc = "logged"
    /\ proc.runs = 2
    /\ proc.logFile = "install-T2.log"
    /\ fs.logs = {"install-T2.log", "install-notes.txt", "install-T1.log.bak",
                  "debug.log", "notes.txt"}

\* C21: with --dry-run, --clean-logs, --clean-skills and --uninstall delete
\* nothing: the skill directories, the tool skills directories and the log
\* files stay as they were.
C21_DryRunMaintenanceNoMutation ==
    proc.dryRun => (Home(fs) = hist.home0 /\ fs.logs = hist.logs0)

\* C27: --clean-skills removes a tool skills directory only if it holds no
\* entry at all: one that holds any entry, hidden ones included, stays in
\* place with its content.
C27_CleanRemovesOnlyEmpty ==
    proc.cleanSkills =>
        \A t \in DOMAIN fs.tool :
            ( /\ existsSync([fs EXCEPT !.tool = hist.home0.tool,
                                       !.storeRoot = hist.home0.storeRoot], t)
              /\ hist.home0.tool[t] # "file"
              /\ readdirTool([fs EXCEPT !.tool = hist.home0.tool,
                                        !.content = hist.home0.content,
                                        !.store = hist.home0.store,
                                        !.other = hist.home0.other], t) # {} )
            => ( /\ fs.tool[t] = hist.home0.tool[t]
                 /\ fs.content[t] = hist.home0.content[t] )

\* C22: from the same filesystem and the same inputs a dry run and a real
\* run log the same number of lines, in the same order and at the same
\* levels (here for --clean-skills; hist.twin is the log of the other mode).
C22_DryRunLogsSameLines ==
    proc.why = "skillsCleaned" =>
        /\ Len(hist.lines) = Len(hist.twin)
        /\ \A k \in 1..Len(hist.lines) :
               k <= Len(hist.twin) =>
                   /\ hist.lines[k].level = hist.twin[k].level
                   /\ hist.lines[k].tool = hist.twin[k].tool


\* C23: a failure of the full clone is fatal: the process exits with a
\* non-zero code, the error is on the console and in the session log, and
\* nothing is navigated, selected, copied into the store or mapped afterwards
FullCloneFailed ==
    /\ hist.fetchLog # <<>>
    /\ hist.fetchLog[Len(hist.fetchLog)] = Attempt("full", FALSE)

C23_FullCloneFailureFatal ==
    FullCloneFailed =>
        /\ proc.pc = "exited"
        /\ proc.exitCode # 0
        /\ proc.stderr = <<"Failed to clone repository">>
        /\ fs.logErrors = <<"Failed to clone repository">>
        /\ proc.selectedDir = <<>>
        /\ proc.targets = <<>>
        /\ hist.answer = <<>>
        /\ hist.visited = {}
        /\ Home(fs) = hist.home0

C23_Witness ==
    /\ FullCloneFailed
    /\ Len(hist.fetchLog) = 2
    /\ proc.pc = "exited"
    /\ proc.why = "cloneFailed"

\* C24: the narrow strategy is attempted exactly when subpath is non-empty
\* and the version of git is at least (2, 25) in lexicographic order; a
\* failing or unparsable version probe counts as (0, 0)
ProbedVersion ==
    IF fs.gitVersion.status # 0 \/ fs.gitVersion.match = <<>> THEN <<0, 0>>
    ELSE fs.gitVersion.match

AtLeast225 ==
    \/ ProbedVersion[1] > 2
    \/ ProbedVersion[1] = 2 /\ ProbedVersion[2] >= 25

C24_NarrowIffSubpathAndVersion ==
    [][ proc.pc = "clone" =>
          ( (hist'.fetchLog[1].kind = "sparse")
              <=> (proc.subpath # <<>> /\ AtLeast225) ) ]_vars

C24_Witness ==
    /\ hist.fetchLog # <<>>
    /\ hist.fetchLog[1].kind = "sparse"
    /\ fs.gitVersion = GitProbe(0, <<3, 0>>)

\* C29: when git is missing the install flow exits non-zero without having
\* created or deleted a log file, queried the remote or created the scratch
\* directory
C29_GitCheckedFirst ==
    (proc.pc = "exited" /\ proc.why = "noGit") =>
        /\ proc.exitCode # 0
        /\ fs.logs = hist.logs0
        /\ proc.logFile = ""
        /\ hist.headQueries = 0
        /\ hist.fetchLog = <<>>
        /\ fs.tmp = "none"
        /\ ~proc.hook
        /\ Home(fs) = hist.home0

C29_Witness ==
    /\ proc.pc = "exited"
    /\ proc.why = "noGit"
    /\ proc.githubInput = "o/r"


\* C28: every error reported through logError is appended to the session
\* log file in addition to being printed on the console
C28_ErrorsAppendedToLog ==
    \A i \in DOMAIN proc.stderr :
        \E j \in DOMAIN fs.logErrors : fs.logErrors[j] = proc.stderr[i]


\* C25: copySkill never copies onto an existing destination path unless the
\* operator chose overwrite for that very path (the path is then removed
\* first); a destination obtained through a rename is subject to conflict
\* resolution when it exists
C25_NoCopyOntoExisting ==
    fs.merged = {}

\* C26: skill content is written only inside the shared store root, for
\* every selected directory and every rename answer
C26_CopyOnlyUnderStoreRoot ==
    fs.outside = {}


\* C30: selectTargets offers exactly the tools that are not mapped (their
\* skills path is not an existing link to the shared store root); a run in
\* which no target is selected makes no privilege probe and no link, copies
\* the skill once the preview is confirmed, and ends with exit code 0
Unmapped0 ==
    {t \in DOMAIN hist.home0.tool :
        ~(hist.home0.tool[t] = "linkStore" /\ hist.home0.storeRoot)}

NoTargetRun ==
    hist.offered # <<>> /\ proc.targets = <<>>

IsMainStage(x) == x \notin {"query", "probe"}

Before(a, b) ==
    \A i, j \in DOMAIN hist.trace :
        (hist.trace[i] = a /\ hist.trace[j] = b) => i < j

C31_StagesInOrder ==
    (proc.pc = "exited" /\ proc.why = "done") =>
        /\ SelectSeq(hist.trace, IsMainStage) =
             <<"parse", "fetch", "navigate", "preview", "copy">>
                \o (IF proc.targets # <<>> THEN <<"map">> ELSE <<>>)
                \o <<"cleanup">>
        /\ hist.copies = 1
        /\ Before("query", "fetch")
        /\ hist.headQueries <= 1
        /\ hist.visited = Range(proc.targets)

C31_Witness ==
    /\ proc.pc = "exited"
    /\ proc.why = "done"
    /\ hist.headQueries = 1
    /\ Len(proc.targets) = 2
    /\ \E t \in hist.visited : fs.tool[t] = "linkStore" /\ hist.home0.tool[t] # "linkStore"
    /\ fs.changed # {}


\* C32: the symlink capability probe runs at most once per invocation, only
\* when targets were selected and dry-run is off, and before the first
\* per-target conflict prompt and before any copy or link creation
C32_ProbeOnceUpFront ==
    /\ hist.probes <= 1
    /\ hist.probes = 1 <=> "probe" \in Range(hist.trace)
    /\ hist.probes = 1 => (proc.targets # <<>> /\ ~proc.dryRun)
    /\ Before("probe", "copy")
    /\ Before("probe", "map")
    /\ hist.asked # {} => "map" \in Range(hist.trace)
    /\ (proc.platform = "win32" /\ ~proc.dryRun
          /\ (hist.visited # {} \/ (hist.copies > 0 /\ proc.targets # <<>>)))
         => hist.probes = 1

C32_Witness ==
    /\ hist.probes = 1
    /\ hist.asked # {}
    /\ hist.copies = 1
    /\ proc.why = "done"
    /\ \E t \in hist.visited : fs.tool[t] = "linkStore"


\* C33: a non-elevated process whose probe is denied asks for a relaunch
\* with its original arguments plus the elevation flag and then exits, with
\* code 0 when the request succeeded and non-zero when it failed, having
\* copied nothing into the store and created or removed no tool path
C33_RelaunchWithoutMutation ==
    /\ proc.why \in {"relaunched", "elevationFailed"} => hist.requested # <<>>
    /\ hist.requested # <<>> =>
        /\ ~proc.elevated
        /\ hist.requested = <<"expcat-skills.js">> \o proc.args \o <<"--elevated">>
        /\ proc.pc = "exited"
        /\ \/ proc.why = "relaunched" /\ proc.exitCode = 0
                /\ proc.spawned = hist.requested
           \/ proc.why = "elevationFailed" /\ proc.exitCode # 0
                /\ proc.spawned = <<>>
        /\ hist.copies = 0
        /\ Home(fs) = hist.home0

C33_Witness ==
    /\ proc.why = "elevationFailed"
    /\ hist.requested # <<>>
    /\ Len(proc.targets) = 2


\* C34: linkSkillsDir treats a target as unmapped (no confirmation) only
\* when nothing at all lies at its skills path, as mapped only when the path
\* is a link that resolves to the shared store root, and as conflicting
\* (confirmation asked) in every other case, a link whose destination does
\* not exist included
LinkState(kind) ==
    CASE kind = "absent" -> "unmapped"
      [] kind = "linkStore" -> "mapped"
      [] OTHER -> "conflicting"

C34_ThreeLinkStates ==
    \A t \in hist.visited :
        /\ LinkState(hist.home0.tool[t]) = "conflicting" <=> t \in hist.asked
        /\ LinkState(hist.home0.tool[t]) = "mapped" =>
               (fs.tool[t] = "linkStore" /\ t \notin hist.linkFailed)


\* C35: outside dry-run, a call of linkSkillsDir for a target that is not
\* mapped, where the operator accepted the replacement or nothing lay at the
\* path, leaves on return the old path removed and the target mapped, and
\* no other tool path touched
C35_ReplaceThenMapped ==
    [][ ( /\ proc.pc = "link"
          /\ proc.tIdx <= Len(proc.targets)
          /\ ~proc.dryRun
          /\ fs.tool[proc.targets[proc.tIdx]] \in {"absent", "dir", "file", "linkOther"}
          /\ proc'.pc = "link"
          /\ proc.targets[proc.tIdx] \notin hist'.declined )
        => ( /\ isSkillsLinked(fs', proc.targets[proc.tIdx])
             /\ fs'.content[proc.targets[proc.tIdx]] = {}
             /\ \A u \in DOMAIN fs.tool :
                    u # proc.targets[proc.tIdx] => fs'.tool[u] = fs.tool[u]
             /\ (proc.targets[proc.tIdx] \in hist'.asked)
                  <=> (fs.tool[proc.targets[proc.tIdx]] # "absent") ) ]_vars

C35_Witness ==
    \E t \in hist.asked :
        /\ t \notin hist.declined
        /\ hist.home0.tool[t] \in {"dir", "file", "linkOther"}
        /\ fs.tool[t] = "linkStore"
        /\ ~proc.dryRun


\* what a step of handleConflict and the rest of copySkill may do, when the
\* answers in rename select rename, those in overwrite select overwrite and
\* every other answer is invalid
ConflictStep(rename, overwrite) ==
    LET a == hist'.conflict.action
        n == hist'.conflict.newName
    IN  proc.pc = "conflict" =>
          IF a \in rename THEN
              IF n = "" THEN
                  /\ proc'.pc = "exited"
                  /\ proc'.why = "emptyName"
                  /\ proc'.exitCode # 0
                  /\ Home(fs') = Home(fs)
                  /\ hist'.copies = hist.copies
              ELSE
                  /\ proc'.pc = "link"
                  /\ hist'.copies = hist.copies + 1
                  /\ proc.dryRun \/ n \in fs'.changed \cup fs'.outside
          ELSE IF a \in overwrite THEN
              /\ proc'.pc = "link"
              /\ hist'.copies = hist.copies + 1
              /\ proc.dryRun \/ proc.skillName \in fs'.changed \ fs'.merged
          ELSE
              /\ proc' = proc
              /\ fs' = fs
              /\ hist'.copies = hist.copies

\* C36 as stated: the empty answer or 'r' selects rename (an empty new name
\* then ends the process non-zero without a copy), 'o' selects overwrite,
\* and any other answer changes nothing and repeats the prompt
C36_ConflictAnswers ==
    [][ ConflictStep({<<>>, <<"r">>}, {<<"o">>}) ]_vars

\* C36 with the two letters read in either case, as the code tests them
C36_ConflictAnswersAnyCase ==
    [][ ConflictStep({<<>>, <<"r">>, <<"R">>}, {<<"o">>, <<"O">>}) ]_vars

C36_Witness ==
    /\ hist.conflict.action = <<"x">>
    /\ proc.pc = "conflict"
    /\ hist.copies = 0


\* C37: selectDirectoryStepwise returns current as the selection exactly
\* when current has no subdirectory (no prompt then) or the operator enters
\* '.' or an empty line; a number k in [1, count] moves current to the k-th
\* subdirectory in sorted order; plain files are neither listed nor counted
ChildDirs(current) ==
    SortNames({q[Len(q)] : q \in {d \in RepoDirs :
                   Len(d) = Len(current) + 1 /\ SubSeq(d, 1, Len(current)) = current}})

C37_SelectionAndDescent ==
    [][ (proc.pc = "nav" /\ fs.tmp = "cloned" /\ proc.current \in RepoDirs) =>
          LET dirs == ChildDirs(proc.current)
              k == NumberOf(proc'.choice)
          IN  /\ proc'.pc = "selectTargets"
                    <=> (dirs = <<>> \/ proc'.choice \in {<<".">>, <<>>})
              /\ proc'.pc = "selectTargets" => proc'.selectedDir = proc.current
              /\ dirs = <<>> => proc'.choice = proc.choice
              /\ (dirs # <<>> /\ k \in 1..Len(dirs)) =>
                    /\ proc'.pc = "nav"
                    /\ proc'.current = Append(proc.current, dirs[k]) ]_vars

C37_Witness ==
    /\ proc.pc = "nav"
    /\ proc.choice = <<"2">>
    /\ proc.prev = <<>>
    /\ proc.current = <<"skills">>


\* C38: in the legacy installer a target list that holds an unknown id ends
\* the process non-zero before the confirmation prompt and before any copy
\* into any tool directory, the valid targets listed before it included
HasUnknownTarget ==
    \E i \in DOMAIN proc.tList :
        proc.tList[i] \notin {<<"claude">>, <<"copilot">>, <<"codex">>, <<"opencode">>}

C38_UnknownTargetBeforeCopy ==
    (hist.selected /\ HasUnknownTarget) =>
        /\ ~hist.asked
        /\ hist.copies = 0
        /\ fs.installed = hist.installed0
        /\ proc.pc \in {"preview", "exited"}
        /\ proc.pc = "exited" => (proc.why = "unknownTarget" /\ proc.exitCode # 0)

C38_Witness ==
    /\ proc.pc = "exited"
    /\ proc.why = "unknownTarget"
    /\ proc.tList = << <<"copilot">>, <<"bogus">> >>
    /\ ~proc.dryRun


\* C39: in runUninstall the deletion of the selected candidates leaves the
\* directory of every candidate that was not selected in place, whatever
\* the tool skills paths are, links to the shared store included
C39_UnselectedIntact ==
    \A c \in Range(proc.skills) :
        c \notin Range(proc.selected) => c.name \in readdirTool(fs, c.tool)

====
